---------------------------- MODULE Spec2Model ----------------------------
(***************************************************************************)
(* Job-to-worker matching core of JOB_assist: models.py (TimeBlock, Job,   *)
(* UserProfile, build_busy_map) and matcher.py (conflicts, jobs_overlap,   *)
(* job_fits_user, score_job, JobMatcher).                                  *)
(*                                                                         *)
(* Representation.  A Python str is a sequence of one-character strings,   *)
(* so that lower(), strip() and the `in` substring test are computed.  An  *)
(* Optional value is a sequence of length 0 (None) or 1.  A float is an    *)
(* exact rational [n, d] in lowest terms with d > 0.                       *)
(***************************************************************************)
EXTENDS Integers, Sequences, FiniteSets, TLC

VARIABLES
    jobs,   \* JobMatcher.jobs: the sequence of Job the matcher was built with
    user,   \* the UserProfile handed to the calls (busy_map included)
    call,   \* the most recent call: its operation and arguments
    ret     \* the value that call returned

vars == <<jobs, user, call, ret>>

-----------------------------------------------------------------------------
(* Bounds of the model *)

MaxJobs == 3

MaxLimit == 3

-----------------------------------------------------------------------------
(* Python str and number helpers *)

UpperChars ==
    <<"A","B","C","D","E","F","G","H","I","J","K","L","M",
      "N","O","P","Q","R","S","T","U","V","W","X","Y","Z">>

LowerChars ==
    <<"a","b","c","d","e","f","g","h","i","j","k","l","m",
      "n","o","p","q","r","s","t","u","v","w","x","y","z">>

LowerChar(c) ==
    IF \E i \in DOMAIN UpperChars : UpperChars[i] = c
    THEN LowerChars[CHOOSE i \in DOMAIN UpperChars : UpperChars[i] = c]
    ELSE c

\* str.lower()
Lower(s) == [i \in DOMAIN s |-> LowerChar(s[i])]

\* needle in hay
IsSubstring(needle, hay) ==
    \E k \in 0..(Len(hay) - Len(needle)) :
        SubSeq(hay, k + 1, k + Len(needle)) = needle

RECURSIVE LStrip(_)
LStrip(s) == IF s # <<>> /\ Head(s) = " " THEN LStrip(Tail(s)) ELSE s

RECURSIVE RStrip(_)
RStrip(s) ==
    IF s # <<>> /\ s[Len(s)] = " " THEN RStrip(SubSeq(s, 1, Len(s) - 1)) ELSE s

\* str.strip()
Strip(s) == RStrip(LStrip(s))

None == <<>>

Some(v) == <<v>>

Abs(x) == IF x < 0 THEN 0 - x ELSE x

Max(a, b) == IF a >= b THEN a ELSE b

RECURSIVE Gcd(_, _)
Gcd(a, b) == IF b = 0 THEN a ELSE Gcd(b, a % b)

\* the rational n/d (d > 0) in lowest terms
Rat(n, d) ==
    LET g == Gcd(Abs(n), d) IN [n |-> n \div g, d |-> d \div g]

RatAdd(x, y) == Rat(x.n * y.d + y.n * x.d, x.d * y.d)

RatSub(x, y) == Rat(x.n * y.d - y.n * x.d, x.d * y.d)

RatMul(x, y) == Rat(x.n * y.n, x.d * y.d)

RatLess(x, y) == x.n * y.d < y.n * x.d

-----------------------------------------------------------------------------
(* models.py *)

Str_mon == <<"m","o","n">>
Str_monday == <<"m","o","n","d","a","y">>
Str_tue == <<"t","u","e">>
Str_tuesday == <<"t","u","e","s","d","a","y">>
Str_wed == <<"w","e","d">>
Str_wednesday == <<"w","e","d","n","e","s","d","a","y">>
Str_thu == <<"t","h","u">>
Str_thursday == <<"t","h","u","r","s","d","a","y">>
Str_fri == <<"f","r","i">>
Str_friday == <<"f","r","i","d","a","y">>
Str_sat == <<"s","a","t">>
Str_saturday == <<"s","a","t","u","r","d","a","y">>
Str_sun == <<"s","u","n">>
Str_sunday == <<"s","u","n","d","a","y">>

DAY_ALIASES ==
    [k \in {Str_mon, Str_monday, Str_tue, Str_tuesday, Str_wed, Str_wednesday,
            Str_thu, Str_thursday, Str_fri, Str_friday, Str_sat, Str_saturday,
            Str_sun, Str_sunday} |->
        CASE k \in {Str_mon, Str_monday} -> "Mon"
          [] k \in {Str_tue, Str_tuesday} -> "Tue"
          [] k \in {Str_wed, Str_wednesday} -> "Wed"
          [] k \in {Str_thu, Str_thursday} -> "Thu"
          [] k \in {Str_fri, Str_friday} -> "Fri"
          [] k \in {Str_sat, Str_saturday} -> "Sat"
          [] OTHER -> "Sun"]

DAY_ORDER == <<"Mon", "Tue", "Wed", "Thu", "Fri", "Sat", "Sun">>

Days == {DAY_ORDER[i] : i \in DOMAIN DAY_ORDER}

\* normalize_day raises ValueError for a key outside DAY_ALIASES
normalize_day_raises(raw) == Lower(Strip(raw)) \notin DOMAIN DAY_ALIASES

normalize_day(raw) == DAY_ALIASES[Lower(Strip(raw))]

\* parse_time on an int argument (the isinstance(raw, int) branch)
parse_time(raw) == raw

\* TimeBlock(day, start, end)
TimeBlock(day, start, end) == [day |-> day, start |-> start, end |-> end]

\* mutant of weekly_pay: the rate is not multiplied by the hours
weekly_pay_rate_only(job) == job.hourly_rate

\* Job.weekly_pay
weekly_pay(job) == job.hourly_rate * job.hours_per_week

\* Job.is_remote
is_remote(job) == IsSubstring(<<"r","e","m","o","t","e">>, Lower(job.location))

\* tuple order of Python on (start, end) pairs
PairLess(p, q) == p[1] < q[1] \/ (p[1] = q[1] /\ p[2] < q[2])

RECURSIVE InsertInterval(_, _)
InsertInterval(sorted, p) ==
    IF sorted = <<>> THEN <<p>>
    ELSE IF PairLess(p, Head(sorted)) THEN <<p>> \o sorted
    ELSE <<Head(sorted)>> \o InsertInterval(Tail(sorted), p)

\* list.sort() on a list of (start, end) tuples
RECURSIVE SortIntervals(_)
SortIntervals(s) ==
    IF s = <<>> THEN <<>>
    ELSE InsertInterval(SortIntervals(SubSeq(s, 1, Len(s) - 1)), s[Len(s)])

\* the (parse_time(start), parse_time(end)) tuples of one schedule entry
RECURSIVE ParsedBlocks(_)
ParsedBlocks(blocks) ==
    IF blocks = <<>> THEN <<>>
    ELSE <<(<<parse_time(Head(blocks)[1]), parse_time(Head(blocks)[2])>>)>>
         \o ParsedBlocks(Tail(blocks))

\* build_busy_map: schedule is the sequence of (raw_day, blocks) items of the
\* dict, in iteration order
RECURSIVE BuildBusy(_, _)
BuildBusy(busy, items) ==
    IF items = <<>> THEN busy
    ELSE LET day == normalize_day(Head(items).day)
             appended == busy[day] \o ParsedBlocks(Head(items).blocks)
         IN  BuildBusy([busy EXCEPT ![day] = SortIntervals(appended)],
                       Tail(items))

build_busy_map(schedule) == BuildBusy([d \in Days |-> <<>>], schedule)

\* UserProfile.skill_set
skill_set(u) == {Lower(u.skills[i]) : i \in DOMAIN u.skills}

\* UserProfile(...) followed by __post_init__
UserProfile(location, min_hourly_rate, max_hours_per_week, desired_hours_per_week, remote_ok, onsite_ok, skills, preferences, busy_schedule, preferred_locations) ==
    [location |-> location,
     min_hourly_rate |-> min_hourly_rate,
     max_hours_per_week |-> max_hours_per_week,
     desired_hours_per_week |-> desired_hours_per_week,
     remote_ok |-> remote_ok,
     onsite_ok |-> onsite_ok,
     skills |-> skills,
     preferences |-> preferences,
     busy_schedule |-> busy_schedule,
     preferred_locations |->
         IF preferred_locations = None THEN <<>> ELSE preferred_locations[1],
     busy_map |-> build_busy_map(busy_schedule)]

\* Job(...)
Job(job_id, title, location, hourly_rate, required_skills, hours_per_week, schedule_blocks) ==
    [job_id |-> job_id,
     title |-> title,
     location |-> location,
     hourly_rate |-> hourly_rate,
     required_skills |-> required_skills,
     hours_per_week |-> hours_per_week,
     schedule_blocks |-> schedule_blocks]

MatchInsight(title, detail) == [title |-> title, detail |-> detail]

MatchResult(js, total_hours, total_pay, insights, score) ==
    [jobs |-> js, total_hours |-> total_hours, total_pay |-> total_pay,
     insights |-> insights, score |-> score]

-----------------------------------------------------------------------------
(* matcher.py *)

\* mutant of conflicts: closed intervals, touching counts as a conflict
RECURSIVE conflicts_closed(_, _)
conflicts_closed(block, busy_blocks) ==
    IF busy_blocks = <<>> THEN FALSE
    ELSE IF block.start <= Head(busy_blocks)[2]
            /\ block.end >= Head(busy_blocks)[1] THEN TRUE
    ELSE conflicts_closed(block, Tail(busy_blocks))

\* conflicts(block, busy_blocks): the loop returns True at the first interval
\* that overlaps the block
RECURSIVE conflicts(_, _)
conflicts(block, busy_blocks) ==
    IF busy_blocks = <<>> THEN FALSE
    ELSE IF block.start < Head(busy_blocks)[2]
            /\ block.end > Head(busy_blocks)[1] THEN TRUE
    ELSE conflicts(block, Tail(busy_blocks))

\* mutant of the inner loop: only one side of the overlap test
RECURSIVE BlockOverlapsAny_one_sided(_, _)
BlockOverlapsAny_one_sided(block_a, blocks_b) ==
    IF blocks_b = <<>> THEN FALSE
    ELSE LET block_b == Head(blocks_b) IN
         IF block_a.day # block_b.day
         THEN BlockOverlapsAny_one_sided(block_a, Tail(blocks_b))
         ELSE IF block_a.start < block_b.end THEN TRUE
         ELSE BlockOverlapsAny_one_sided(block_a, Tail(blocks_b))

\* inner loop of jobs_overlap: block_a against the blocks of job_b
RECURSIVE BlockOverlapsAny(_, _)
BlockOverlapsAny(block_a, blocks_b) ==
    IF blocks_b = <<>> THEN FALSE
    ELSE LET block_b == Head(blocks_b) IN
         IF block_a.day # block_b.day
         THEN BlockOverlapsAny(block_a, Tail(blocks_b))
         ELSE IF block_a.start < block_b.end /\ block_a.end > block_b.start
         THEN TRUE
         ELSE BlockOverlapsAny(block_a, Tail(blocks_b))

\* outer loop of jobs_overlap
RECURSIVE AnyBlockOverlaps(_, _)
AnyBlockOverlaps(blocks_a, blocks_b) ==
    IF blocks_a = <<>> THEN FALSE
    ELSE IF BlockOverlapsAny(Head(blocks_a), blocks_b) THEN TRUE
    ELSE AnyBlockOverlaps(Tail(blocks_a), blocks_b)

\* mutant of jobs_overlap: a job without schedule blocks collides with
\* every job
jobs_overlap_empty_collides(job_a, job_b) ==
    IF job_a.schedule_blocks = <<>> \/ job_b.schedule_blocks = <<>> THEN TRUE
    ELSE AnyBlockOverlaps(job_a.schedule_blocks, job_b.schedule_blocks)

jobs_overlap(job_a, job_b) ==
    AnyBlockOverlaps(job_a.schedule_blocks, job_b.schedule_blocks)

\* dict.get(key, default)
DictGet(d, key, default) == IF key \in DOMAIN d THEN d[key] ELSE default

\* skill_gap of job_fits_user: the required skills missing from user.skill_set
skill_gap(job, u) ==
    SelectSeq(job.required_skills, LAMBDA skill : Lower(skill) \notin skill_set(u))

\* mutant of the skill check: strict matching, a skill gap rejects
SkillGapRejects_strict(job, u) ==
    IF job.required_skills # <<>>
    THEN IF skill_gap(job, u) # <<>> THEN TRUE ELSE FALSE
    ELSE FALSE

\* the relaxed skill check of job_fits_user: a non-empty skill gap is computed
\* and passed over, so the check never rejects
SkillGapRejects(job, u) ==
    IF job.required_skills # <<>>
    THEN IF skill_gap(job, u) # <<>> THEN FALSE ELSE FALSE
    ELSE FALSE

\* mutant of the location check: the tests on a non-empty user.location are
\* left out
LocationOk_unguarded(job, u) ==
    LET remote == is_remote(job)
    IN  IF remote /\ u.remote_ok THEN TRUE
        ELSE IF ~remote /\ u.onsite_ok THEN
            \/ IsSubstring(Lower(u.location), Lower(job.location))
            \/ IsSubstring(Lower(job.location), Lower(u.location))
            \/ Lower(job.location) \in
                   {Lower(u.preferred_locations[i]) :
                        i \in DOMAIN u.preferred_locations}
        ELSE FALSE

\* the location_ok flag computed by job_fits_user
LocationOk(job, u) ==
    LET remote == is_remote(job)
                  \/ IsSubstring(<<"r","e","m","o","t","e">>, Lower(job.location))
    IN  IF remote /\ u.remote_ok THEN TRUE
        ELSE IF ~remote /\ u.onsite_ok THEN
            IF u.location # <<>>
               /\ IsSubstring(Lower(u.location), Lower(job.location)) THEN TRUE
            ELSE IF u.location # <<>>
               /\ IsSubstring(Lower(job.location), Lower(u.location)) THEN TRUE
            ELSE LET listed ==
                         IF u.preferred_locations # <<>>
                         THEN {Lower(u.preferred_locations[i]) :
                                   i \in DOMAIN u.preferred_locations}
                         ELSE {}
                     preferred ==
                         IF u.location # <<>>
                         THEN listed \cup {Lower(u.location)}
                         ELSE listed
                 IN  Lower(job.location) \in preferred
        ELSE IF u.remote_ok /\ remote THEN TRUE
        ELSE FALSE

\* mutant of the schedule loop: only the first block is tested
AnyBlockConflicts_first_only(blocks, busy_map) ==
    IF blocks = <<>> THEN FALSE
    ELSE conflicts(Head(blocks), DictGet(busy_map, Head(blocks).day, <<>>))

\* the schedule loop of job_fits_user: True when some block conflicts
RECURSIVE AnyBlockConflicts(_, _)
AnyBlockConflicts(blocks, busy_map) ==
    IF blocks = <<>> THEN FALSE
    ELSE IF conflicts(Head(blocks), DictGet(busy_map, Head(blocks).day, <<>>))
    THEN TRUE
    ELSE AnyBlockConflicts(Tail(blocks), busy_map)

\* an f-string: its template and the values formatted into it
Text(fmt, args) == [fmt |-> fmt, args |-> args]

Rejected == [accepted |-> FALSE, insights |-> <<>>]

\* the pay check of job_fits_user
PayTooLow(job, u) == job.hourly_rate < u.min_hourly_rate

\* mutant of the hours check: off by one
HoursTooHigh_off_by_one(job, u) ==
    job.hours_per_week > u.max_hours_per_week + 1

\* the hours check of job_fits_user
HoursTooHigh(job, u) == job.hours_per_week > u.max_hours_per_week

\* job_fits_user(job, user) -> (accepted, insights)
job_fits_user(job, u) ==
    IF PayTooLow(job, u) THEN Rejected
    ELSE IF HoursTooHigh(job, u) THEN Rejected
    ELSE IF SkillGapRejects(job, u) THEN Rejected
    ELSE IF ~LocationOk(job, u) THEN Rejected
    ELSE IF AnyBlockConflicts(job.schedule_blocks, u.busy_map) THEN Rejected
    ELSE [accepted |-> TRUE,
          insights |->
            << MatchInsight("Skills", Text("Skills match or not specified.", <<>>)),
               MatchInsight("Schedule", Text("Fits within free time blocks.", <<>>)),
               MatchInsight("Location", Text("Matches location preference.", <<>>)),
               MatchInsight("Income",
                   Text("Pays {:.0f} per hour.", <<job.hourly_rate>>)) >>]

\* mutant of score_job: the divisor is floored at 2 instead of 1
score_job_floor_two(job, u) ==
    LET hours_target ==
            IF u.desired_hours_per_week # None
               /\ u.desired_hours_per_week[1] # 0
            THEN u.desired_hours_per_week[1]
            ELSE u.max_hours_per_week
        desired_env == DictGet(u.preferences, "environment", <<>>)
    IN  RatAdd(RatAdd(Rat(job.hourly_rate * 2, 1),
                      RatMul(RatSub(Rat(1, 1),
                                    Rat(Abs(job.hours_per_week - hours_target),
                                        Max(hours_target, 2))),
                             Rat(10, 1))),
               Rat(IF desired_env # <<>>
                      /\ IsSubstring(Lower(desired_env), Lower(job.title))
                   THEN 5 ELSE 0, 1))

\* mutant of score_job: the environment is looked up in the title as written
score_job_case_sensitive(job, u) ==
    LET hours_target ==
            IF u.desired_hours_per_week # None
               /\ u.desired_hours_per_week[1] # 0
            THEN u.desired_hours_per_week[1]
            ELSE u.max_hours_per_week
        desired_env == DictGet(u.preferences, "environment", <<>>)
    IN  RatAdd(RatAdd(Rat(job.hourly_rate * 2, 1),
                      RatMul(RatSub(Rat(1, 1),
                                    Rat(Abs(job.hours_per_week - hours_target),
                                        Max(hours_target, 1))),
                             Rat(10, 1))),
               Rat(IF desired_env # <<>> /\ IsSubstring(desired_env, job.title)
                   THEN 5 ELSE 0, 1))

\* score_job(job, user)
score_job(job, u) ==
    LET pay_weight == Rat(job.hourly_rate * 2, 1)
        hours_target ==
            IF u.desired_hours_per_week # None
               /\ u.desired_hours_per_week[1] # 0
            THEN u.desired_hours_per_week[1]
            ELSE u.max_hours_per_week
        hours_alignment ==
            RatSub(Rat(1, 1),
                   Rat(Abs(job.hours_per_week - hours_target),
                       Max(hours_target, 1)))
        desired_env == DictGet(u.preferences, "environment", <<>>)
        preference_bonus ==
            IF desired_env # <<>>
               /\ IsSubstring(Lower(desired_env), Lower(job.title))
            THEN 5 ELSE 0
    IN  RatAdd(RatAdd(pay_weight, RatMul(hours_alignment, Rat(10, 1))),
               Rat(preference_bonus, 1))

\* mutant of the sort: an entry goes in front of the entries of equal score
RECURSIVE InsertByScore_before_ties(_, _)
InsertByScore_before_ties(sorted, e) ==
    IF sorted = <<>> THEN <<e>>
    ELSE IF ~RatLess(e.score, Head(sorted).score) THEN <<e>> \o sorted
    ELSE <<Head(sorted)>> \o InsertByScore_before_ties(Tail(sorted), e)

\* list.sort(key = score, reverse = True): stable, an entry goes behind the
\* entries whose score is not smaller
RECURSIVE InsertByScore(_, _)
InsertByScore(sorted, e) ==
    IF sorted = <<>> THEN <<e>>
    ELSE IF RatLess(Head(sorted).score, e.score) THEN <<e>> \o sorted
    ELSE <<Head(sorted)>> \o InsertByScore(Tail(sorted), e)

RECURSIVE SortByScoreDesc(_)
SortByScoreDesc(s) ==
    IF s = <<>> THEN <<>>
    ELSE InsertByScore(SortByScoreDesc(SubSeq(s, 1, Len(s) - 1)), s[Len(s)])

\* mutant of the slice: one entry more, as s[:limit + 1]
Take_one_more(s, limit) ==
    SubSeq(s, 1, IF limit + 1 < Len(s) THEN limit + 1 ELSE Len(s))

\* mutant of the slice: the last entries, as s[len(s) - limit:]
Take_last(s, limit) ==
    SubSeq(s, Len(s) - (IF limit < Len(s) THEN limit ELSE Len(s)) + 1, Len(s))

\* s[:limit] for limit >= 0
Take(s, limit) == SubSeq(s, 1, IF limit < Len(s) THEN limit ELSE Len(s))

\* mutant of the eligible list: every job of the list, fitting or not
RECURSIVE Eligible_unfiltered(_, _)
Eligible_unfiltered(js, u) ==
    IF js = <<>> THEN <<>>
    ELSE << [job |-> Head(js), score |-> score_job(Head(js), u),
             insights |-> job_fits_user(Head(js), u).insights] >>
         \o Eligible_unfiltered(Tail(js), u)

\* the eligible list of match_single_jobs: (job, score, insights) of the
\* jobs that fit, in input order
RECURSIVE Eligible(_, _)
Eligible(js, u) ==
    IF js = <<>> THEN <<>>
    ELSE LET fit == job_fits_user(Head(js), u) IN
         (IF fit.accepted
          THEN << [job |-> Head(js), score |-> score_job(Head(js), u),
                   insights |-> fit.insights] >>
          ELSE <<>>)
         \o Eligible(Tail(js), u)

\* JobMatcher.match_single_jobs(user, limit)
match_single_jobs(js, u, limit) ==
    LET eligible == Take(SortByScoreDesc(Eligible(js, u)), limit)
    IN  [i \in DOMAIN eligible |->
            MatchResult(<<eligible[i].job>>,
                        eligible[i].job.hours_per_week,
                        weekly_pay(eligible[i].job),
                        eligible[i].insights,
                        eligible[i].score)]

\* the eligible_jobs list of match_job_pairs
RECURSIVE EligibleJobs(_, _)
EligibleJobs(js, u) ==
    IF js = <<>> THEN <<>>
    ELSE (IF job_fits_user(Head(js), u).accepted THEN <<Head(js)>> ELSE <<>>)
         \o EligibleJobs(Tail(js), u)

\* the job_scores dict of match_job_pairs: keyed by job_id, a later job with
\* the same job_id overwrites the entry
RECURSIVE JobScores(_, _, _)
JobScores(scores, js, u) ==
    IF js = <<>> THEN scores
    ELSE LET job == Head(js)
             updated ==
                 [k \in DOMAIN scores \cup {job.job_id} |->
                     IF k = job.job_id THEN score_job(job, u) ELSE scores[k]]
         IN  JobScores(IF job_fits_user(job, u).accepted THEN updated ELSE scores,
                       Tail(js), u)

\* mutant of the pair enumeration: combinations with replacement, i <= j
RECURSIVE PairsFrom_with_self(_, _, _)
PairsFrom_with_self(i, j, n) ==
    IF i > n THEN <<>>
    ELSE IF j > n THEN PairsFrom_with_self(i + 1, i + 1, n)
    ELSE <<(<<i, j>>)>> \o PairsFrom_with_self(i, j + 1, n)

Combinations2_with_self(n) == PairsFrom_with_self(1, 1, n)

\* mutant of the pair enumeration: neighbours only, as zip(jobs, jobs[1:])
Combinations2_adjacent(n) == [i \in 1..(n - 1) |-> <<i, i + 1>>]

\* itertools.combinations(range(1..n), 2): index pairs i < j in lexicographic
\* order
RECURSIVE PairsFrom(_, _, _)
PairsFrom(i, j, n) ==
    IF i >= n THEN <<>>
    ELSE IF j > n THEN PairsFrom(i + 1, i + 2, n)
    ELSE <<(<<i, j>>)>> \o PairsFrom(i, j + 1, n)

Combinations2(n) == PairsFrom(1, 2, n)

RECURSIVE SumStarts(_)
SumStarts(blocks) ==
    IF blocks = <<>> THEN 0 ELSE Head(blocks).start + SumStarts(Tail(blocks))

BlockDays(job) == {job.schedule_blocks[i].day : i \in DOMAIN job.schedule_blocks}

\* JobMatcher._get_pair_type(job_a, job_b)
get_pair_type(job_a, job_b) ==
    LET overlap_days == BlockDays(job_a) \cap BlockDays(job_b) IN
    IF overlap_days = {}
    THEN "Different Days (e.g., Mon-Wed and Thu-Sun)"
    ELSE LET avg_start_a == Rat(SumStarts(job_a.schedule_blocks),
                                Len(job_a.schedule_blocks))
             avg_start_b == Rat(SumStarts(job_b.schedule_blocks),
                                Len(job_b.schedule_blocks))
             diff == RatSub(avg_start_a, avg_start_b)
             morning_evening_gap ==
                 RatLess(Rat(240, 1), Rat(Abs(diff.n), diff.d))
         IN  IF morning_evening_gap
             THEN IF RatLess(avg_start_a, avg_start_b)
                  THEN "Morning & Evening Split (ideal rest period)"
                  ELSE "Evening & Morning Split (ideal rest period)"
             ELSE "Complementary Schedule"

Digits == <<"0","1","2","3","4","5","6","7","8","9">>

\* f"{v:02d}" for 0 <= v < 100
TwoDigits(v) == <<Digits[(v \div 10) + 1], Digits[(v % 10) + 1]>>

\* JobMatcher._format_time(minutes)
format_time(minutes) ==
    LET hour == minutes \div 60
        minute == minutes % 60
    IN  TwoDigits(hour) \o <<":">> \o TwoDigits(minute)

\* the "day HH:MM-HH:MM" entries of one job, which the code joins with ", "
ScheduleEntries(job) ==
    [i \in DOMAIN job.schedule_blocks |->
        <<job.schedule_blocks[i].day,
          format_time(job.schedule_blocks[i].start),
          format_time(job.schedule_blocks[i].end)>>]

\* JobMatcher._get_pair_schedule_insights(job_a, job_b)
get_pair_schedule_insights(job_a, job_b) ==
    Text("{schedule_a} | {schedule_b} | Total: {total_hours}h/week",
         <<ScheduleEntries(job_a), ScheduleEntries(job_b),
           job_a.hours_per_week + job_b.hours_per_week>>)

\* mutant of the pair test: the hours cap is not applied
PairSkipped_no_cap(job_a, job_b, u) == jobs_overlap(job_a, job_b)

\* the two `continue` tests of match_job_pairs
PairSkipped(job_a, job_b, u) ==
    IF jobs_overlap(job_a, job_b) THEN TRUE
    ELSE job_a.hours_per_week + job_b.hours_per_week > u.max_hours_per_week

\* the loop of match_job_pairs over combinations(eligible_jobs, 2)
RECURSIVE Combos(_, _, _, _)
Combos(pairs, eligible_jobs, job_scores, u) ==
    IF pairs = <<>> THEN <<>>
    ELSE LET job_a == eligible_jobs[Head(pairs)[1]]
             job_b == eligible_jobs[Head(pairs)[2]]
             total_hours == job_a.hours_per_week + job_b.hours_per_week
             total_pay == weekly_pay(job_a) + weekly_pay(job_b)
             pair_score == RatAdd(job_scores[job_a.job_id],
                                  job_scores[job_b.job_id])
             insights ==
                 << MatchInsight("Pair Type",
                                 Text(get_pair_type(job_a, job_b), <<>>)),
                    MatchInsight("Schedule Fit",
                                 get_pair_schedule_insights(job_a, job_b)),
                    MatchInsight("Combined Hours",
                                 Text("{}h per week", <<total_hours>>)),
                    MatchInsight("Income",
                                 Text("Combined weekly income: {:.0f} AED",
                                      <<total_pay>>)) >>
             rest == Combos(Tail(pairs), eligible_jobs, job_scores, u)
         IN  IF PairSkipped(job_a, job_b, u) THEN rest
             ELSE <<MatchResult(<<job_a, job_b>>, total_hours, total_pay,
                                insights, pair_score)>> \o rest

\* JobMatcher.match_job_pairs(user, limit)
match_job_pairs(js, u, limit) ==
    LET eligible_jobs == EligibleJobs(js, u)
        job_scores == JobScores(<<>>, js, u)
        combos == Combos(Combinations2(Len(eligible_jobs)), eligible_jobs,
                         job_scores, u)
    IN  Take(SortByScoreDesc(combos), limit)

-----------------------------------------------------------------------------
(* models.py: schedule values as they arrive from outside the matcher *)

\* a payload value of Python type int, and one of type str
PyInt(i) == <<"int", i>>

PyStr(s) == <<"str", s>>

PyType(raw) == raw[1]

PyValue(raw) == raw[2]

\* the outcome of a call that raised, and of one that returned v
Raised == [raised |-> TRUE, value |-> <<>>]

Returned(v) == [raised |-> FALSE, value |-> v]

\* str.isdigit() on ASCII text
isdigit(s) == s # <<>> /\ \A i \in DOMAIN s : \E d \in DOMAIN Digits : Digits[d] = s[i]

RECURSIVE DecimalValue(_)
DecimalValue(s) ==
    IF s = <<>> THEN 0
    ELSE DecimalValue(SubSeq(s, 1, Len(s) - 1)) * 10
         + (CHOOSE d \in DOMAIN Digits : Digits[d] = s[Len(s)]) - 1

\* the text int(s) reads its digits from: blanks stripped, one sign dropped
IntBody(s) ==
    LET t == Strip(s)
    IN  IF t # <<>> /\ Head(t) \in {"+", "-"} THEN Tail(t) ELSE t

\* int(s) raises ValueError unless s is an optionally signed run of digits
int_raises(s) == ~isdigit(IntBody(s))

\* int(s)
int(s) ==
    LET t == Strip(s)
    IN  IF t # <<>> /\ Head(t) = "-"
        THEN 0 - DecimalValue(IntBody(s))
        ELSE DecimalValue(IntBody(s))

\* parse_time on a str argument
parse_time_str(raw) ==
    LET colons == {i \in DOMAIN raw : raw[i] = ":"}
    IN  IF colons # {}
        THEN IF Cardinality(colons) # 1 THEN Raised
             ELSE LET k == CHOOSE i \in colons : TRUE
                      hour == SubSeq(raw, 1, k - 1)
                      minute == SubSeq(raw, k + 1, Len(raw))
                  IN  IF int_raises(hour) \/ int_raises(minute) THEN Raised
                      ELSE Returned(int(hour) * 60 + int(minute))
        ELSE IF isdigit(raw) THEN Returned(int(raw))
        ELSE Returned(0)

\* parse_time(raw) for a payload value of either type
parse_time_value(raw) ==
    IF PyType(raw) = "int" THEN Returned(parse_time(PyValue(raw)))
    ELSE parse_time_str(PyValue(raw))

\* TimeBlock.from_dict(payload)
from_dict(payload) ==
    IF normalize_day_raises(payload.day) THEN Raised
    ELSE LET start == parse_time_value(payload.start)
             end == parse_time_value(payload.end)
         IN  IF start.raised \/ end.raised THEN Raised
             ELSE Returned(TimeBlock(normalize_day(payload.day),
                                     start.value, end.value))

\* build_busy_map raises on the first day or time that does
ScheduleRaises(schedule) ==
    \E n \in DOMAIN schedule :
        \/ normalize_day_raises(schedule[n].day)
        \/ \E b \in DOMAIN schedule[n].blocks :
            \/ parse_time_value(schedule[n].blocks[b][1]).raised
            \/ parse_time_value(schedule[n].blocks[b][2]).raised

\* the schedule with every time replaced by what parse_time returns for it
ParsedSchedule(schedule) ==
    [n \in DOMAIN schedule |->
        [day |-> schedule[n].day,
         blocks |-> [b \in DOMAIN schedule[n].blocks |->
                        << parse_time_value(schedule[n].blocks[b][1]).value,
                           parse_time_value(schedule[n].blocks[b][2]).value >>]]]

\* build_busy_map(schedule) for a schedule of payload values
build_busy_map_value(schedule) ==
    IF ScheduleRaises(schedule) THEN Raised
    ELSE Returned(build_busy_map(ParsedSchedule(schedule)))

-----------------------------------------------------------------------------
(* schedule_inference.py *)

DriverWords ==
    { <<"d","r","i","v","e","r">>,
      <<"t","a","x","i">>,
      <<"c","o","u","r","i","e","r">>,
      <<"d","e","l","i","v","e","r","y">>,
      <<"u","b","e","r">>,
      <<"l","y","f","t">> }

SupportWords ==
    { <<"c","a","l","l"," ","c","e","n","t","e","r">>,
      <<"s","u","p","p","o","r","t">>,
      <<"o","p","e","r","a","t","o","r">>,
      <<"a","g","e","n","t">>,
      <<"c","u","s","t","o","m","e","r"," ","s","e","r","v","i","c","e">>,
      <<"h","e","l","p","d","e","s","k">> }

PartTimeWords ==
    { <<"p","a","r","t"," ","t","i","m","e">>,
      <<"p","a","r","t","-","t","i","m","e">>,
      <<"p","a","r","t","t","i","m","e">> }

NightWords ==
    { <<"n","i","g","h","t">>,
      <<"o","v","e","r","n","i","g","h","t">>,
      <<"g","r","a","v","e","y","a","r","d">> }

\* infer_schedule_from_title(title, location); title_hash is hash(title), which
\* Python draws anew for every process
infer_schedule_from_title(title, location, title_hash) ==
    LET title_lower == Lower(title)
        loc_lower == Lower(location)
        days == <<"Mon", "Tue", "Wed", "Thu", "Fri">>
        any(words) == \E w \in words : IsSubstring(w, title_lower)
        result(blocks, hours) == [schedule_blocks |-> blocks, hours_per_week |-> hours]
    IN  IF \/ IsSubstring(<<"r","e","m","o","t","e">>, title_lower)
           \/ IsSubstring(<<"r","e","m","o","t","e">>, loc_lower)
        THEN result(<<>>, 40)
        ELSE IF any(DriverWords)
        THEN result([i \in DOMAIN days |-> TimeBlock(days[i], 1080, 1380)], 25)
        ELSE IF any(SupportWords)
        THEN IF title_hash % 2 = 0
             THEN result([i \in DOMAIN days |-> TimeBlock(days[i], 480, 840)], 30)
             ELSE result([i \in DOMAIN days |-> TimeBlock(days[i], 840, 1200)], 30)
        ELSE IF any(PartTimeWords)
        THEN result([i \in DOMAIN days |-> TimeBlock(days[i], 600, 840)], 20)
        ELSE IF any(NightWords)
        THEN result([i \in DOMAIN days |-> TimeBlock(days[i], 1320, 480)], 40)
        ELSE IF IsSubstring(<<"w","e","e","k","e","n","d">>, title_lower)
        THEN LET weekend_days == <<"Sat", "Sun">>
             IN  result([i \in DOMAIN weekend_days |->
                            TimeBlock(weekend_days[i], 540, 1080)], 18)
        ELSE result([i \in DOMAIN days |-> TimeBlock(days[i], 540, 1080)], 45)

-----------------------------------------------------------------------------
(* Inputs: the strings, schedules, jobs and users the checks range over *)

S_Dubai == <<"D","u","b","a","i">>
S_DUBAI == <<"D","U","B","A","I">>
S_DubaiUAE == <<"D","u","b","a","i",","," ","U","A","E">>
S_Ajman == <<"A","j","m","a","n">>
S_AJMAN == <<"A","J","M","A","N">>
S_Remote == <<"R","e","m","o","t","e">>
S_REMOTE_EU == <<"R","E","M","O","T","E"," ","(","E","U",")">>
S_Python == <<"P","y","t","h","o","n">>
S_python == <<"p","y","t","h","o","n">>
S_Excel == <<"E","x","c","e","l">>
S_office == <<"o","f","f","i","c","e">>
S_OfficeClerk == <<"O","f","f","i","c","e"," ","C","l","e","r","k">>
S_Tutor == <<"T","u","t","o","r">>
S_Driver == <<"D","r","i","v","e","r">>
S_EveningDriver == <<"E","v","e","n","i","n","g"," ","D","r","i","v","e","r">>
S_WeekendOfficeHost == <<"W","e","e","k","e","n","d"," ","O","f","f","i","c","e"," ","H","o","s","t">>
S_Support == <<"S","u","p","p","o","r","t">>
S_Monday == <<"M","o","n","d","a","y">>
S_mon_padded == <<" ","m","o","n"," ">>
S_TUE == <<"T","U","E">>

WeekDays == <<"Mon", "Tue", "Wed", "Thu", "Fri">>

\* the same shift on each of the given days
Shift(days, start, end) == [i \in DOMAIN days |-> TimeBlock(days[i], start, end)]

\* busy_schedule arguments: the (raw day, blocks) items of the dict
BusySchedules ==
    { <<>>,
      << [day |-> S_Monday, blocks |-> <<(<<540, 600>>)>>] >>,
      << [day |-> S_Monday, blocks |-> << <<720, 780>>, <<540, 600>> >>],
         [day |-> S_TUE, blocks |-> <<(<<0, 1440>>)>>] >>,
      << [day |-> S_Monday, blocks |-> <<(<<720, 780>>)>>],
         [day |-> S_mon_padded, blocks |-> <<(<<540, 600>>)>>] >> }

\* schedule_blocks of the single-job inputs: free of, touching, and cutting
\* into the busy intervals above, and a night shift as schedule_inference
\* builds it (start > end)
BlockLists ==
    { <<>>,
      <<TimeBlock("Mon", 600, 720)>>,
      <<TimeBlock("Mon", 480, 541)>>,
      <<TimeBlock("Wed", 540, 600), TimeBlock("Mon", 779, 900)>>,
      <<TimeBlock("Mon", 1320, 480)>> }

\* one job against one user: every combination of the fields the feasibility
\* checks read
FitJobs ==
    { Job("J", S_Tutor, loc, pay[1], <<S_Excel>>, pay[2], blocks) :
        loc \in {<<>>, S_Remote, S_REMOTE_EU, S_Dubai, S_DubaiUAE, S_Ajman},
        pay \in {<<10, 40>>, <<9, 40>>, <<10, 41>>},
        blocks \in BlockLists }

FitUsers ==
    { UserProfile(loc, 10, 40, None, remote_ok, onsite_ok, skills, <<>>,
                  busy, preferred) :
        loc \in {<<>>, S_DUBAI, S_DubaiUAE},
        remote_ok \in BOOLEAN,
        onsite_ok \in BOOLEAN,
        skills \in {<<S_python>>},
        busy \in BusySchedules,
        preferred \in {None, Some(<<S_AJMAN>>)} }

\* the jobs of the matcher-level inputs: the scenario of busy Monday 9-10
\* (A, B, C, C2), a weekend job that ties with C2, and a remote job without a
\* schedule that carries job_id "B" a second time
JobA == Job("A", S_OfficeClerk, S_Dubai, 20, <<>>, 45, Shift(WeekDays, 540, 1080))

JobB == Job("B", S_Tutor, S_Dubai, 15, <<S_Python>>, 20, Shift(WeekDays, 600, 840))

JobC == Job("C", S_Driver, S_Dubai, 12, <<>>, 25, Shift(WeekDays, 1080, 1380))

JobC2 == Job("C2", S_EveningDriver, S_Dubai, 12, <<>>, 15, Shift(WeekDays, 1080, 1260))

JobW == Job("W", S_WeekendOfficeHost, S_DubaiUAE, 12, <<>>, 15, Shift(<<"Sat", "Sun">>, 540, 1080))

JobRemoteB == Job("B", S_Support, S_Remote, 11, <<S_Excel>>, 30, <<>>)

JobPool == {JobA, JobB, JobC, JobC2, JobW, JobRemoteB}

MatchUsers ==
    { UserProfile(S_Dubai, 10, max_hours, wish[1], TRUE, TRUE,
                  <<S_python>>, wish[2],
                  << [day |-> S_Monday, blocks |-> <<(<<540, 600>>)>>] >>,
                  None) :
        max_hours \in {40, 70},
        wish \in { <<None, <<>> >>,
                   <<Some(20), [environment |-> S_office]>> } }

JobLists == UNION {[1..n -> JobPool] : n \in 0..MaxJobs}

Inputs ==
    (JobLists \X MatchUsers) \cup ({<<j>> : j \in FitJobs} \X FitUsers)

-----------------------------------------------------------------------------
(* The matcher as a state machine: JobMatcher(jobs) is constructed, then its *)
(* operations are called in any order, one at a time (the core is           *)
(* synchronous): call and ret hold the call whose result the caller holds.  *)

Idle == [op |-> "idle"]

Init ==
    /\ \E input \in Inputs :
        /\ jobs = input[1]
        /\ user = input[2]
    /\ call = Idle
    /\ ret = None

\* conflicts(block, busy_blocks) as job_fits_user calls it
Conflicts ==
    /\ call = Idle
    /\ \E i \in DOMAIN jobs :
      \E k \in DOMAIN jobs[i].schedule_blocks :
        LET block == jobs[i].schedule_blocks[k]
            busy_blocks == DictGet(user.busy_map, block.day, <<>>)
        IN  /\ call' = [op |-> "conflicts", block |-> block,
                        busy_blocks |-> busy_blocks]
            /\ ret' = conflicts(block, busy_blocks)
            /\ UNCHANGED <<jobs, user>>

JobsOverlap ==
    /\ call = Idle
    /\ \E i \in DOMAIN jobs :
      \E j \in DOMAIN jobs :
        /\ call' = [op |-> "jobs_overlap", a |-> i, b |-> j]
        /\ ret' = jobs_overlap(jobs[i], jobs[j])
        /\ UNCHANGED <<jobs, user>>

JobFitsUser ==
    /\ call = Idle
    /\ \E i \in DOMAIN jobs :
        /\ call' = [op |-> "job_fits_user", job |-> i]
        /\ ret' = job_fits_user(jobs[i], user)
        /\ UNCHANGED <<jobs, user>>

MatchSingleJobs ==
    /\ call = Idle
    /\ \E limit \in 0..MaxLimit :
        /\ call' = [op |-> "match_single_jobs", limit |-> limit]
        /\ ret' = match_single_jobs(jobs, user, limit)
        /\ UNCHANGED <<jobs, user>>

MatchJobPairs ==
    /\ call = Idle
    /\ \E limit \in 0..MaxLimit :
        /\ call' = [op |-> "match_job_pairs", limit |-> limit]
        /\ ret' = match_job_pairs(jobs, user, limit)
        /\ UNCHANGED <<jobs, user>>

\* the caller has consumed the result; the matcher takes the next call
Return ==
    /\ call # Idle
    /\ call' = Idle
    /\ ret' = None
    /\ UNCHANGED <<jobs, user>>

Next ==
    \/ Conflicts
    \/ JobsOverlap
    \/ JobFitsUser
    \/ MatchSingleJobs
    \/ MatchJobPairs
    \/ Return

Spec == Init /\ [][Next]_vars

-----------------------------------------------------------------------------
(* Properties.  They are stated over the state in which a call has returned, *)
(* with the overlap, feasibility and order conditions written out           *)
(* declaratively rather than through the operators above.                   *)

\* two blocks lie on the same day and half-open-overlap
BlocksCollide(x, y) == x.day = y.day /\ x.start < y.end /\ x.end > y.start

\* some block of a collides with some block of b
SchedulesCollide(a, b) ==
    \E x \in DOMAIN a.schedule_blocks : \E y \in DOMAIN b.schedule_blocks :
        BlocksCollide(a.schedule_blocks[x], b.schedule_blocks[y])

\* the busy intervals the user declared for a day, read off busy_schedule
DeclaredBusy(u, day) ==
    UNION { {u.busy_schedule[n].blocks[m] : m \in DOMAIN u.busy_schedule[n].blocks} :
              n \in {n \in DOMAIN u.busy_schedule :
                        /\ ~normalize_day_raises(u.busy_schedule[n].day)
                        /\ normalize_day(u.busy_schedule[n].day) = day} }

\* some block of the job cuts into a busy interval of its day
HitsBusy(job, u) ==
    \E k \in DOMAIN job.schedule_blocks :
        \E iv \in DeclaredBusy(u, job.schedule_blocks[k].day) :
            job.schedule_blocks[k].start < iv[2] /\ job.schedule_blocks[k].end > iv[1]

PayAndHoursOk(job, u) ==
    /\ job.hourly_rate >= u.min_hourly_rate
    /\ job.hours_per_week <= u.max_hours_per_week

\* ways to read a result list as a choice of distinct input entries: p[i] is
\* the position in the job list of the single job of result i
EntryChoices(results) ==
    { p \in [DOMAIN results -> DOMAIN jobs] :
        /\ \A i \in DOMAIN results : jobs[p[i]] = results[i].jobs[1]
        /\ \A i, j \in DOMAIN results : i # j => p[i] # p[j] }

\* C1: every pair returned by match_job_pairs has non-colliding schedules and
\* summed weekly hours within user.max_hours_per_week
C1_PairsDisjointWithinCap ==
    call.op = "match_job_pairs" =>
        \A i \in DOMAIN ret :
            /\ ~jobs_overlap(ret[i].jobs[1], ret[i].jobs[2])
            /\ ~SchedulesCollide(ret[i].jobs[1], ret[i].jobs[2])
            /\ ret[i].jobs[1].hours_per_week + ret[i].jobs[2].hours_per_week
                   <= user.max_hours_per_week

\* a pair was returned while another pair of feasible jobs was turned down for
\* colliding and a third for exceeding the cap
C1_Witness ==
    /\ call.op = "match_job_pairs"
    /\ Len(ret) >= 1
    /\ \E i, j \in DOMAIN jobs :
        /\ i < j
        /\ job_fits_user(jobs[i], user).accepted
        /\ job_fits_user(jobs[j], user).accepted
        /\ SchedulesCollide(jobs[i], jobs[j])
    /\ \E i, j \in DOMAIN jobs :
        /\ i < j
        /\ job_fits_user(jobs[i], user).accepted
        /\ job_fits_user(jobs[j], user).accepted
        /\ ~SchedulesCollide(jobs[i], jobs[j])
        /\ jobs[i].hours_per_week + jobs[j].hours_per_week
               > user.max_hours_per_week

\* C2: both members of every returned pair are accepted by job_fits_user (pay,
\* hours, location and schedule checks hold for each alone) and are two
\* different entries of the job list
C2_PairMembersFeasibleDistinct ==
    call.op = "match_job_pairs" =>
        \A i \in DOMAIN ret :
            /\ Len(ret[i].jobs) = 2
            /\ \A m \in 1..2 :
                /\ job_fits_user(ret[i].jobs[m], user).accepted
                /\ PayAndHoursOk(ret[i].jobs[m], user)
                /\ LocationOk(ret[i].jobs[m], user)
                /\ ~HitsBusy(ret[i].jobs[m], user)
            /\ \E a, b \in DOMAIN jobs :
                /\ a < b
                /\ jobs[a] = ret[i].jobs[1]
                /\ jobs[b] = ret[i].jobs[2]

\* a pair was returned from a list that also holds an infeasible job, and one
\* of its members occurs only once in the list
C2_Witness ==
    /\ call.op = "match_job_pairs"
    /\ Len(ret) >= 1
    /\ \E k \in DOMAIN jobs : ~job_fits_user(jobs[k], user).accepted
    /\ \E i \in DOMAIN ret :
        Cardinality({k \in DOMAIN jobs : jobs[k] = ret[i].jobs[1]}) = 1

\* C3: a job accepted by job_fits_user pays at least min_hourly_rate and asks
\* at most max_hours_per_week, and so does every job match_single_jobs returns
C3_AcceptedWithinPayAndHours ==
    /\ call.op = "job_fits_user" /\ ret.accepted =>
           PayAndHoursOk(jobs[call.job], user)
    /\ call.op = "match_single_jobs" =>
           \A i \in DOMAIN ret : PayAndHoursOk(ret[i].jobs[1], user)

\* a job exactly at both bounds was accepted
C3_Witness ==
    /\ call.op = "job_fits_user"
    /\ ret.accepted
    /\ jobs[call.job].hourly_rate = user.min_hourly_rate
    /\ jobs[call.job].hours_per_week = user.max_hours_per_week

\* C4: a job is accepted only if none of its blocks cuts into a busy interval
\* the user has on that block's day; a job with such a block is rejected
C4_AcceptedAvoidsBusy ==
    call.op = "job_fits_user" =>
        /\ ret.accepted => ~HitsBusy(jobs[call.job], user)
        /\ ret.accepted =>
             \A k \in DOMAIN jobs[call.job].schedule_blocks :
               LET b == jobs[call.job].schedule_blocks[k] IN
               \A m \in DOMAIN user.busy_map[b.day] :
                   ~(b.start < user.busy_map[b.day][m][2]
                     /\ b.end > user.busy_map[b.day][m][1])
        /\ HitsBusy(jobs[call.job], user) => ~ret.accepted

\* a job was accepted whose block touches two busy intervals of its day
C4_Witness ==
    /\ call.op = "job_fits_user"
    /\ ret.accepted
    /\ \E k \in DOMAIN jobs[call.job].schedule_blocks :
        LET b == jobs[call.job].schedule_blocks[k] IN
        /\ \E iv \in DeclaredBusy(user, b.day) : iv[2] = b.start
        /\ \E iv \in DeclaredBusy(user, b.day) : iv[1] = b.end

\* C5: conflicts(block, intervals) is True exactly when some interval (s, e)
\* has block.start < e and block.end > s; touching at a boundary and an empty
\* list give False
C5_ConflictsIffOverlap ==
    call.op = "conflicts" =>
        /\ ret = (\E m \in DOMAIN call.busy_blocks :
                    /\ call.block.start < call.busy_blocks[m][2]
                    /\ call.block.end > call.busy_blocks[m][1])
        /\ call.busy_blocks = <<>> => ret = FALSE
        /\ (\A m \in DOMAIN call.busy_blocks :
                \/ call.block.start >= call.busy_blocks[m][2]
                \/ call.block.end <= call.busy_blocks[m][1]) => ret = FALSE

\* conflicts returned False for a block that touches an interval at each end
C5_Witness ==
    /\ call.op = "conflicts"
    /\ ret = FALSE
    /\ \E m \in DOMAIN call.busy_blocks :
        call.block.start = call.busy_blocks[m][2]
    /\ \E m \in DOMAIN call.busy_blocks :
        call.block.end = call.busy_blocks[m][1]


\* C6: jobs_overlap(A, B) = jobs_overlap(B, A), and it is true exactly when a
\* block of A and a block of B lie on the same day and half-open-overlap
C6_JobsOverlapCommutes ==
    call.op = "jobs_overlap" =>
        /\ ret = jobs_overlap(jobs[call.b], jobs[call.a])
        /\ ret = SchedulesCollide(jobs[call.a], jobs[call.b])

\* jobs_overlap returned False for two jobs that share a day and touch there,
\* and True for two other jobs of the same list
C6_Witness ==
    /\ call.op = "jobs_overlap"
    /\ call.a # call.b
    /\ ret = FALSE
    /\ \E x \in DOMAIN jobs[call.a].schedule_blocks :
         \E y \in DOMAIN jobs[call.b].schedule_blocks :
            /\ jobs[call.a].schedule_blocks[x].day = jobs[call.b].schedule_blocks[y].day
            /\ jobs[call.a].schedule_blocks[x].end = jobs[call.b].schedule_blocks[y].start
    /\ \E i, j \in DOMAIN jobs : i # j /\ SchedulesCollide(jobs[i], jobs[j])

\* the other checks of job_fits_user hold, so that accepted shows the location
\* check alone
OtherChecksPass(job, u) == PayAndHoursOk(job, u) /\ ~HitsBusy(job, u)

RemoteWord == <<"r","e","m","o","t","e">>

\* the location rule as claimed, without a condition on an empty user.location
LocationRuleClaimed(job, u) ==
    LET remote == IsSubstring(RemoteWord, Lower(job.location))
        listed == {Lower(u.preferred_locations[i]) :
                       i \in DOMAIN u.preferred_locations}
    IN  \/ remote /\ u.remote_ok
        \/ /\ ~remote
           /\ u.onsite_ok
           /\ \/ IsSubstring(Lower(u.location), Lower(job.location))
              \/ IsSubstring(Lower(job.location), Lower(u.location))
              \/ Lower(job.location) \in listed \cup {Lower(u.location)}

\* the location rule in which user.location counts only when non-empty
LocationRuleAmended(job, u) ==
    LET remote == IsSubstring(RemoteWord, Lower(job.location))
        own == IF u.location # <<>> THEN {Lower(u.location)} ELSE {}
        listed == {Lower(u.preferred_locations[i]) :
                       i \in DOMAIN u.preferred_locations} \cup own
    IN  \/ remote /\ u.remote_ok
        \/ /\ ~remote
           /\ u.onsite_ok
           /\ \/ /\ u.location # <<>>
                 /\ \/ IsSubstring(Lower(u.location), Lower(job.location))
                    \/ IsSubstring(Lower(job.location), Lower(u.location))
              \/ Lower(job.location) \in listed

\* C7 as claimed: the location check passes exactly when the job is remote and
\* remote_ok, or onsite with onsite_ok and user.location within job.location or
\* the reverse or job.location among preferred_locations and user.location,
\* also for an empty user.location
C7_LocationRuleAsClaimed ==
    call.op = "job_fits_user" /\ OtherChecksPass(jobs[call.job], user) =>
        ret.accepted = LocationRuleClaimed(jobs[call.job], user)

\* C7 amended: as claimed, except that user.location takes part only when it
\* is non-empty, in the two substring tests and in the set job.location is
\* looked up in; a remote job is never accepted without remote_ok, an onsite
\* job never without onsite_ok
C7_LocationRule ==
    call.op = "job_fits_user" =>
        /\ OtherChecksPass(jobs[call.job], user) =>
               ret.accepted = LocationRuleAmended(jobs[call.job], user)
        /\ ret.accepted /\ IsSubstring(RemoteWord, Lower(jobs[call.job].location))
               => user.remote_ok
        /\ ret.accepted /\ ~IsSubstring(RemoteWord, Lower(jobs[call.job].location))
               => user.onsite_ok

\* an onsite job was turned down on location alone for a user with onsite_ok
\* and an empty location
C7_Witness ==
    /\ call.op = "job_fits_user"
    /\ OtherChecksPass(jobs[call.job], user)
    /\ user.location = <<>>
    /\ user.onsite_ok
    /\ ~IsSubstring(RemoteWord, Lower(jobs[call.job].location))
    /\ ~ret.accepted

SkillLists == {<<>>, <<S_python>>, <<S_Excel>>, <<S_Python, S_Excel>>}

\* C8: the accepted flag of job_fits_user is the same for every choice of
\* job.required_skills and user.skills, all else equal
C8_SkillsDoNotDecide ==
    call.op = "job_fits_user" =>
        \A required \in SkillLists : \A owned \in SkillLists :
            job_fits_user([jobs[call.job] EXCEPT !.required_skills = required],
                          [user EXCEPT !.skills = owned]).accepted
            = ret.accepted

\* a job whose required skills are all missing from the user's was accepted
C8_Witness ==
    /\ call.op = "job_fits_user"
    /\ ret.accepted
    /\ jobs[call.job].required_skills # <<>>
    /\ \A k \in DOMAIN jobs[call.job].required_skills :
        Lower(jobs[call.job].required_skills[k]) \notin skill_set(user)

\* C9: the result of match_single_jobs is in non-increasing score order, and
\* results of equal score keep the order their jobs have in the job list
C9_SingleSortedStable ==
    call.op = "match_single_jobs" =>
        /\ \A i, j \in DOMAIN ret :
               i < j => ~RatLess(ret[i].score, ret[j].score)
        /\ \E p \in EntryChoices(ret) :
               \A i, j \in DOMAIN ret :
                   i < j /\ ret[i].score = ret[j].score => p[i] < p[j]

\* two different jobs of equal score were returned, behind a job of higher
\* score that comes later in the job list
C9_Witness ==
    /\ call.op = "match_single_jobs"
    /\ \E i, j \in DOMAIN ret :
        /\ i < j
        /\ ret[i].score = ret[j].score
        /\ ret[i].jobs # ret[j].jobs
    /\ Len(ret) = 3
    /\ RatLess(ret[2].score, ret[1].score)
    /\ ret[1].jobs[1] = jobs[3]

\* C10: every result of match_single_jobs wraps one job accepted by
\* job_fits_user, with total_hours = hours_per_week, total_pay = hourly_rate *
\* hours_per_week, score = score_job and the insights of job_fits_user, and no
\* entry of the job list is returned twice
C10_SingleResultsWrapFeasibleJobs ==
    call.op = "match_single_jobs" =>
        /\ \A i \in DOMAIN ret :
            LET job == ret[i].jobs[1] IN
            /\ Len(ret[i].jobs) = 1
            /\ job_fits_user(job, user).accepted
            /\ PayAndHoursOk(job, user)
            /\ ~HitsBusy(job, user)
            /\ ret[i].total_hours = job.hours_per_week
            /\ ret[i].total_pay = job.hourly_rate * job.hours_per_week
            /\ ret[i].score = score_job(job, user)
            /\ ret[i].insights = job_fits_user(job, user).insights
        /\ EntryChoices(ret) # {}

\* results were returned from a list in which one job is infeasible and
\* another occurs twice
C10_Witness ==
    /\ call.op = "match_single_jobs"
    /\ Len(ret) = 2
    /\ ret[1].jobs = ret[2].jobs
    /\ \E k \in DOMAIN jobs : ~job_fits_user(jobs[k], user).accepted


\* a job passes the pay, hours, location and schedule checks
Feasible(job, u) ==
    PayAndHoursOk(job, u) /\ LocationRuleAmended(job, u) /\ ~HitsBusy(job, u)

\* positions of the job list whose entry is feasible for the user
FeasibleEntries == { i \in DOMAIN jobs : Feasible(jobs[i], user) }

\* the position pairs i < j of feasible entries whose schedules do not collide
\* and whose hours together stay within the user's maximum
SurvivingPairsOf(feasible) ==
    { ij \in feasible \X feasible :
        /\ ij[1] < ij[2]
        /\ jobs[ij[1]].hours_per_week + jobs[ij[2]].hours_per_week
               <= user.max_hours_per_week
        /\ ~SchedulesCollide(jobs[ij[1]], jobs[ij[2]]) }

SurvivingEntryPairs == SurvivingPairsOf(FeasibleEntries)

\* the results are the given pairs of entries, one result for each
ExactlyThePairs(survivors) ==
    /\ Len(ret) = Cardinality(survivors)
    /\ \A k \in DOMAIN ret :
        /\ Len(ret[k].jobs) = 2
        /\ Cardinality({m \in DOMAIN ret : ret[m].jobs = ret[k].jobs})
           = Cardinality({ij \in survivors :
                            <<jobs[ij[1]], jobs[ij[2]]>> = ret[k].jobs})
    /\ \A ij \in survivors :
        \E k \in DOMAIN ret : ret[k].jobs = <<jobs[ij[1]], jobs[ij[2]]>>

NoneCut(survivors) == Cardinality(survivors) <= call.limit => ExactlyThePairs(survivors)

\* C11: when limit is at least the number of surviving pairs, match_job_pairs
\* returns one result per surviving pair of entries i < j, with jobs[i] before
\* jobs[j] in the result, and nothing else
C11_EveryPairOnce ==
    call.op = "match_job_pairs" => NoneCut(SurvivingEntryPairs)

\* all three pairs of a three-job list were returned, the first job paired
\* with the last among them
C11_Witness ==
    /\ call.op = "match_job_pairs"
    /\ Len(jobs) = 3
    /\ Len(ret) = 3
    /\ \E k \in DOMAIN ret : ret[k].jobs = <<jobs[1], jobs[3]>>
    /\ jobs[1] # jobs[2] /\ jobs[2] # jobs[3] /\ jobs[1] # jobs[3]


\* C12: every pair result (A, B) of match_job_pairs has total_hours =
\* A.hours_per_week + B.hours_per_week, total_pay = A.weekly_pay + B.weekly_pay
\* and score = score_job(A, user) + score_job(B, user), also when two feasible
\* jobs of the list carry the same job_id
C12_PairTotalsAndScore ==
    call.op = "match_job_pairs" =>
        \A k \in DOMAIN ret :
            LET a == ret[k].jobs[1]
                b == ret[k].jobs[2]
            IN  /\ ret[k].total_hours = a.hours_per_week + b.hours_per_week
                /\ ret[k].total_pay = a.hourly_rate * a.hours_per_week
                                      + b.hourly_rate * b.hours_per_week
                /\ ret[k].score = RatAdd(score_job(a, user), score_job(b, user))


\* the score match_job_pairs holds for a job_id: that of the last feasible
\* entry of the job list with this id
CachedScore(feasible, id) ==
    LET last == CHOOSE i \in feasible :
                    /\ jobs[i].job_id = id
                    /\ \A j \in feasible : jobs[j].job_id = id => j <= i
    IN  score_job(jobs[last], user)

\* pair_score of the entries at positions ij[1] < ij[2], from the score held
\* for the job_id of each feasible entry
PairScoreOf(held, ij) == RatAdd(held[ij[1]], held[ij[2]])

\* enumeration order of combinations: lexicographic on the positions
EnumeratedBefore(ij, kl) == ij[1] < kl[1] \/ (ij[1] = kl[1] /\ ij[2] < kl[2])

\* the place of a scored pair <<ij, pair_score>> in the descending,
\* tie-preserving order of the given scored pairs
PairRank(scored, p) ==
    1 + Cardinality({ q \in scored :
                        \/ RatLess(p[2], q[2])
                        \/ q[2] = p[2] /\ EnumeratedBefore(q[1], p[1]) })

\* the score held for the job_id of each feasible entry
HeldScores(feasible) ==
    [i \in feasible |-> CachedScore(feasible, jobs[i].job_id)]

PairScores(feasible, held) ==
    { <<ij, PairScoreOf(held, ij)>> : ij \in SurvivingPairsOf(feasible) }

SurvivorScoresOf(feasible) == PairScores(feasible, HeldScores(feasible))

\* the surviving pairs of the job list, each with its pair_score
SurvivorScores == SurvivorScoresOf(FeasibleEntries)

\* the pair of the given rank is the result at that place when the limit
\* reaches it, and otherwise scores no higher than any result
PairPlacedAt(p, rank) ==
    IF rank <= call.limit
    THEN /\ ret[rank].jobs = <<jobs[p[1][1]], jobs[p[1][2]]>>
         /\ ret[rank].score = p[2]
    ELSE \A k \in DOMAIN ret : ~RatLess(ret[k].score, p[2])

PairsSortedAndCut(scored) ==
    /\ Len(ret) = (IF call.limit < Cardinality(scored)
                   THEN call.limit ELSE Cardinality(scored))
    /\ \A i, j \in DOMAIN ret : i < j => ~RatLess(ret[i].score, ret[j].score)
    /\ \A p \in scored : PairPlacedAt(p, PairRank(scored, p))

\* C13: match_job_pairs returns the first `limit` surviving pairs in
\* non-increasing pair_score order, ties in enumeration order; no pair left out
\* has a strictly higher pair_score than a returned one
C13_PairsSortedAndCut ==
    call.op = "match_job_pairs" => PairsSortedAndCut(SurvivorScores)

\* three pairs survived; the best one is not the first enumerated, the other
\* two tie and the limit cut off the later of them
C13_Witness ==
    /\ call.op = "match_job_pairs"
    /\ Cardinality(SurvivorScores) = 3
    /\ Len(ret) = 2
    /\ \E p, q \in SurvivorScores :
        /\ p # q
        /\ p[2] = q[2]
        /\ PairRank(SurvivorScores, p) = 2
        /\ PairRank(SurvivorScores, q) = 3
    /\ \E p \in SurvivorScores :
        PairRank(SurvivorScores, p) = 1 /\ p[1] # <<1, 2>>

-----------------------------------------------------------------------------
(* score_job on its own: one job, one user profile *)

S_OFFICE == <<"O","F","F","I","C","E">>

ScoreJobs ==
    { Job("J", title, S_Dubai, rate, <<>>, hours, <<>>) :
        title \in {S_OfficeClerk, S_Tutor, <<>>},
        rate \in {0, 12, 15},
        hours \in {0, 20, 45} }

ScoreUsers ==
    { UserProfile(S_Dubai, 10, max_hours, desired, TRUE, TRUE, <<>>,
                  preferences, <<>>, None) :
        max_hours \in {0 - 5, 0, 40},
        desired \in {None, Some(0), Some(20)},
        preferences \in { <<>>,
                          [environment |-> <<>>],
                          [environment |-> S_office],
                          [environment |-> S_OFFICE],
                          [industry |-> S_office] } }

InitScore ==
    /\ \E job \in ScoreJobs : jobs = <<job>>
    /\ user \in ScoreUsers
    /\ call = Idle
    /\ ret = None

ScoreJob ==
    /\ call = Idle
    /\ \E i \in DOMAIN jobs :
        /\ call' = [op |-> "score_job", job |-> i]
        /\ ret' = score_job(jobs[i], user)
        /\ UNCHANGED <<jobs, user>>

NextScore ==
    \/ ScoreJob
    \/ Return

SpecScore == InitScore /\ [][NextScore]_vars

\* user.preferences has a non-empty 'environment' that occurs in the title
\* when letter case is ignored
EnvironmentInTitle(job, u) ==
    /\ "environment" \in DOMAIN u.preferences
    /\ u.preferences.environment # <<>>
    /\ LET env == u.preferences.environment
       IN  \E k \in 0..(Len(job.title) - Len(env)) :
             \A m \in 1..Len(env) :
                LowerChar(job.title[k + m]) = LowerChar(env[m])

\* C14: score_job = hourly_rate*2 + hoursAlignment*10 + preferenceBonus with
\* target = desired hours when set and non-zero, else max hours;
\* hoursAlignment = 1 - |hours - target| / max(target, 1); preferenceBonus = 5
\* when the environment preference occurs in the title, else 0.  The score is
\* the exact fraction ret.n / ret.d, so the equation is stated multiplied by
\* max(target, 1).
C14_ScoreFormula ==
    call.op = "score_job" =>
        LET job == jobs[call.job]
            desired == user.desired_hours_per_week
            target == IF desired # None /\ desired[1] # 0
                      THEN desired[1] ELSE user.max_hours_per_week
            scale == IF target > 1 THEN target ELSE 1
            distance == IF job.hours_per_week >= target
                        THEN job.hours_per_week - target
                        ELSE target - job.hours_per_week
            preferenceBonus == IF EnvironmentInTitle(job, user) THEN 5 ELSE 0
        IN  /\ ret.d > 0
            /\ ret.n * scale
               = ret.d * ((job.hourly_rate * 2 + 10 + preferenceBonus) * scale
                          - 10 * distance)

\* an upper-case environment preference earned the bonus with desired hours
\* of zero falling back to the maximum
C14_Witness ==
    /\ call.op = "score_job"
    /\ user.desired_hours_per_week = Some(0)
    /\ user.max_hours_per_week = 40
    /\ user.preferences = [environment |-> S_OFFICE]
    /\ jobs[1].title = S_OfficeClerk
    /\ jobs[1].hours_per_week = 45
    /\ jobs[1].hourly_rate = 12
    /\ ret = Rat(151, 4)

-----------------------------------------------------------------------------
(* The scenario of the matching walk-through *)

\* the user of the scenario: busy Monday 540-600, at most 40 hours, at least
\* 10 per hour, in the city of the jobs and open to remote and on-site work
ScenarioUser ==
    /\ user.busy_schedule = << [day |-> S_Monday, blocks |-> <<(<<540, 600>>)>>] >>
    /\ user.max_hours_per_week = 40
    /\ user.min_hourly_rate = 10
    /\ user.location = S_Dubai
    /\ user.remote_ok
    /\ user.onsite_ok

ScenarioJob(job, start, end, rate, hours) ==
    /\ job.schedule_blocks = Shift(WeekDays, start, end)
    /\ job.hourly_rate = rate
    /\ job.hours_per_week = hours
    /\ job.location = S_Dubai

IsJobA(job) == ScenarioJob(job, 540, 1080, 20, 45)

IsJobB(job) == ScenarioJob(job, 600, 840, 15, 20)

IsJobC(job) == ScenarioJob(job, 1080, 1380, 12, 25)

IsJobC2(job) == ScenarioJob(job, 1080, 1260, 12, 15)

\* C16: for the scenario user job_fits_user rejects A (45 hours), accepts B
\* (its Monday block starts at the busy end 600) and accepts C;
\* match_job_pairs never returns (B, C) (45 > 40 hours) and, when the limit
\* does not cut the result, returns (B, C') with total_hours 35 and
\* total_pay 480
C16_Scenario ==
    ScenarioUser =>
        /\ call.op = "job_fits_user" =>
            /\ IsJobA(jobs[call.job]) => ~ret.accepted
            /\ IsJobB(jobs[call.job]) => ret.accepted
            /\ IsJobC(jobs[call.job]) => ret.accepted
        /\ call.op = "match_job_pairs" =>
            /\ \A k \in DOMAIN ret :
                /\ ~(IsJobB(ret[k].jobs[1]) /\ IsJobC(ret[k].jobs[2]))
                /\ ~(IsJobC(ret[k].jobs[1]) /\ IsJobB(ret[k].jobs[2]))
            /\ \A i, j \in DOMAIN jobs :
                /\ i < j
                /\ IsJobB(jobs[i])
                /\ IsJobC2(jobs[j])
                /\ Len(jobs) * (Len(jobs) - 1) <= 2 * call.limit
                => \E k \in DOMAIN ret :
                    /\ ret[k].jobs = <<jobs[i], jobs[j]>>
                    /\ ret[k].total_hours = 35
                    /\ ret[k].total_pay = 480

\* from the list A, B, C' the pair (B, C') was the only one returned
C16_Witness ==
    /\ ScenarioUser
    /\ call.op = "match_job_pairs"
    /\ Len(jobs) = 3
    /\ IsJobA(jobs[1])
    /\ IsJobB(jobs[2])
    /\ IsJobC2(jobs[3])
    /\ Len(ret) = 1
    /\ ret[1].jobs = <<jobs[2], jobs[3]>>
    /\ ret[1].total_hours = 35
    /\ ret[1].total_pay = 480

\* C17: with an empty job list or no feasible job, match_single_jobs and
\* match_job_pairs return the empty list; match_job_pairs also returns the
\* empty list when exactly one entry of the list is feasible
C17_NothingFeasibleNothingReturned ==
    /\ call.op \in {"match_single_jobs", "match_job_pairs"} /\ ret # <<>>
       => \E i \in DOMAIN jobs : Feasible(jobs[i], user)
    /\ call.op = "match_job_pairs" /\ ret # <<>>
       => \E i, j \in DOMAIN jobs :
            i < j /\ Feasible(jobs[i], user) /\ Feasible(jobs[j], user)

\* pairs were asked from a list of three jobs with a single feasible one
C17_Witness ==
    /\ call.op = "match_job_pairs"
    /\ call.limit > 0
    /\ Len(jobs) = 3
    /\ Cardinality(FeasibleEntries) = 1
    /\ ret = <<>>

-----------------------------------------------------------------------------
(* The producers of schedule data: jobs come from a scraper that infers the *)
(* schedule from the title; time blocks and busy maps are parsed from       *)
(* payloads.                                                                *)

MaxScraped == 1

S_Funday == <<"F","u","n","d","a","y">>
S_NightGuard == <<"N","i","g","h","t"," ","G","u","a","r","d">>
S_PartTimeCook == <<"P","a","r","t","-","t","i","m","e"," ","C","o","o","k">>

RawDays == {S_Monday, S_mon_padded, S_TUE, S_Funday}

RawTimes ==
    { PyInt(540), PyInt(600),
      PyStr(<<"0","9",":","0","0">>), PyStr(<<"6","0","0">>), PyStr(<<"a","b","c">>), PyStr(<<"a","b",":","c","d">>) }

Payloads == [day : RawDays, start : RawTimes, end : RawTimes]

RawSchedules ==
    { << [day |-> p.day, blocks |-> <<(<<p.start, p.end>>)>>] >> : p \in Payloads }

ScrapedTitles == {S_NightGuard, S_Tutor, S_Support, S_PartTimeCook, S_WeekendOfficeHost, S_EveningDriver}

ScrapedLocations == {<<>>, S_Dubai, S_REMOTE_EU}

InitBuild ==
    /\ jobs = <<>>
    /\ user = UserProfile(S_Dubai, 10, 40, None, TRUE, TRUE, <<>>, <<>>, <<>>, None)
    /\ call = Idle
    /\ ret = None

\* TimeBlock.from_dict(payload)
FromDict ==
    /\ call = Idle
    /\ \E payload \in Payloads :
        /\ call' = [op |-> "from_dict", payload |-> payload]
        /\ ret' = from_dict(payload)
        /\ UNCHANGED <<jobs, user>>

\* build_busy_map(schedule)
BuildBusyMap ==
    /\ call = Idle
    /\ \E schedule \in RawSchedules :
        /\ call' = [op |-> "build_busy_map", schedule |-> schedule]
        /\ ret' = build_busy_map_value(schedule)
        /\ UNCHANGED <<jobs, user>>

\* infer_schedule_from_title(title, location)
InferSchedule ==
    /\ call = Idle
    /\ \E title \in ScrapedTitles, location \in ScrapedLocations, title_hash \in 0..1 :
        /\ call' = [op |-> "infer_schedule_from_title", title |-> title,
                    location |-> location]
        /\ ret' = infer_schedule_from_title(title, location, title_hash)
        /\ UNCHANGED <<jobs, user>>

\* IndeedScraper._parse_job_card: the job is built with the inferred schedule
\* and joins the job list
ParseJobCard ==
    /\ call = Idle
    /\ Len(jobs) < MaxScraped
    /\ \E title \in ScrapedTitles, location \in ScrapedLocations, title_hash \in 0..1 :
        LET inferred == infer_schedule_from_title(title, location, title_hash)
            job == Job("indeed", title,
                       IF location = <<>> THEN S_Remote ELSE location,
                       25, <<>>, inferred.hours_per_week,
                       inferred.schedule_blocks)
        IN  /\ call' = [op |-> "parse_job_card", title |-> title]
            /\ ret' = job
            /\ jobs' = Append(jobs, job)
            /\ UNCHANGED user

NextBuild ==
    \/ FromDict
    \/ BuildBusyMap
    \/ InferSchedule
    \/ ParseJobCard
    \/ Return

SpecBuild == InitBuild /\ [][NextBuild]_vars

WellFormedBlock(block) ==
    /\ block.day \in Days
    /\ 0 <= block.start
    /\ block.start < block.end
    /\ block.end <= 1440

\* C18: every TimeBlock in a job's schedule_blocks has
\* 0 <= start < end <= 1440, whether it was built by TimeBlock.from_dict or
\* by infer_schedule_from_title, for any title
C18_BlocksWellFormed ==
    /\ \A i \in DOMAIN jobs :
        \A k \in DOMAIN jobs[i].schedule_blocks :
            WellFormedBlock(jobs[i].schedule_blocks[k])
    /\ call.op = "infer_schedule_from_title" =>
        \A k \in DOMAIN ret.schedule_blocks :
            WellFormedBlock(ret.schedule_blocks[k])
    /\ call.op = "from_dict" /\ ~ret.raised => WellFormedBlock(ret.value)

\* a time written as digits only, or as digits, one colon, digits
IsClockText(s) ==
    \/ isdigit(s)
    \/ \E k \in DOMAIN s :
        /\ s[k] = ":"
        /\ isdigit(SubSeq(s, 1, k - 1))
        /\ isdigit(SubSeq(s, k + 1, Len(s)))

MalformedTime(raw) == PyType(raw) = "str" /\ ~IsClockText(PyValue(raw))

\* the minutes a well-formed time stands for
MinutesOf(raw) ==
    IF PyType(raw) = "int" THEN PyValue(raw)
    ELSE LET text == PyValue(raw)
         IN  IF isdigit(text) THEN DecimalValue(text)
             ELSE LET k == CHOOSE i \in DOMAIN text : text[i] = ":"
                  IN  DecimalValue(SubSeq(text, 1, k - 1)) * 60
                      + DecimalValue(SubSeq(text, k + 1, Len(text)))

MalformedBlock(day, start, end) ==
    \/ Lower(Strip(day)) \notin DOMAIN DAY_ALIASES
    \/ MalformedTime(start)
    \/ MalformedTime(end)
    \/ /\ ~MalformedTime(start)
       /\ ~MalformedTime(end)
       /\ MinutesOf(start) >= MinutesOf(end)

\* C19: TimeBlock.from_dict and build_busy_map raise an error for an invalid
\* weekday name, for a time that is neither numeric nor HH:MM, and for an
\* interval with start >= end
C19_MalformedRejected ==
    /\ call.op = "from_dict"
       /\ MalformedBlock(call.payload.day, call.payload.start, call.payload.end)
       => ret.raised
    /\ call.op = "build_busy_map"
       /\ (\E n \in DOMAIN call.schedule :
             \E b \in DOMAIN call.schedule[n].blocks :
                MalformedBlock(call.schedule[n].day,
                               call.schedule[n].blocks[b][1],
                               call.schedule[n].blocks[b][2]))
       => ret.raised

\* the job asks for no skill, or for at least one skill the user has
SkillsSatisfied(job, u) ==
    \/ job.required_skills = <<>>
    \/ \E i \in DOMAIN job.required_skills :
        \E k \in DOMAIN u.skills :
            Lower(job.required_skills[i]) = Lower(u.skills[k])

\* C20: job_fits_user returns no insight when it rejects; when it accepts,
\* the insights carry each of the titles Skills, Schedule, Location, Income at
\* most once, and a title exactly when that dimension is satisfied
C20_InsightsPerSatisfiedDimension ==
    call.op = "job_fits_user" =>
        LET job == jobs[call.job]
            titles == {ret.insights[i].title : i \in DOMAIN ret.insights}
        IN  /\ ~ret.accepted => ret.insights = <<>>
            /\ ret.accepted =>
                /\ Cardinality(titles) = Len(ret.insights)
                /\ titles \subseteq {"Skills", "Schedule", "Location", "Income"}
                /\ "Skills" \in titles <=> SkillsSatisfied(job, user)
                /\ "Schedule" \in titles <=> ~HitsBusy(job, user)
                /\ "Location" \in titles <=> LocationRuleAmended(job, user)
                /\ "Income" \in titles <=> job.hourly_rate >= user.min_hourly_rate


-----------------------------------------------------------------------------
(* _get_pair_type, jobs_overlap and job_fits_user on two jobs whose          *)
(* schedules share days or not, lie 240 minutes apart or more, or are empty  *)

\* the average start of a job's blocks, as an exact fraction
AvgStart(job) == Rat(SumStarts(job.schedule_blocks), Len(job.schedule_blocks))

RECURSIVE IsPowerOfTwo(_)
IsPowerOfTwo(d) == d = 1 \/ (d > 1 /\ d % 2 = 0 /\ IsPowerOfTwo(d \div 2))

\* sum / len is a binary floating-point division: the quotient is the exact
\* average only when its denominator is a power of two
ExactInBinary(x) == IsPowerOfTwo(x.d)

\* the strings _get_pair_type can return.  The averages are floats: when one
\* of them is rounded and the exact gap is 240, abs(avg_start_a - avg_start_b)
\* may come out above 240 or not
get_pair_type_outcomes(job_a, job_b) ==
    LET exact == get_pair_type(job_a, job_b)
    IN  IF BlockDays(job_a) \cap BlockDays(job_b) = {} THEN {exact}
        ELSE LET avg_start_a == AvgStart(job_a)
                 avg_start_b == AvgStart(job_b)
                 diff == RatSub(avg_start_a, avg_start_b)
             IN  IF /\ Rat(Abs(diff.n), diff.d) = Rat(240, 1)
                    /\ ~(ExactInBinary(avg_start_a) /\ ExactInBinary(avg_start_b))
                 THEN { exact,
                        IF RatLess(avg_start_a, avg_start_b)
                        THEN "Morning & Evening Split (ideal rest period)"
                        ELSE "Evening & Morning Split (ideal rest period)" }
                 ELSE {exact}

\* blocks of one hour at the given starts, on Monday, Tuesday, Wednesday
HourBlocks(days, starts) == [i \in DOMAIN starts |-> TimeBlock(days[i], starts[i], starts[i] + 60)]

PairSchedules ==
    { <<>>,
      HourBlocks(<<"Mon">>, <<600>>),
      HourBlocks(<<"Mon">>, <<840>>),
      HourBlocks(<<"Mon">>, <<841>>),
      HourBlocks(<<"Tue">>, <<600>>),
      HourBlocks(<<"Mon", "Tue">>, <<600, 1080>>),
      HourBlocks(<<"Mon", "Tue", "Wed">>, <<16, 17, 17>>),
      HourBlocks(<<"Mon", "Tue", "Wed">>, <<256, 257, 257>>) }

PairJobs == { Job("P", S_Tutor, S_Dubai, 15, <<>>, 20, blocks) : blocks \in PairSchedules }

PairUsers ==
    { UserProfile(S_Dubai, 10, 40, None, TRUE, TRUE, <<>>, <<>>, busy, None) :
        busy \in BusySchedules }

InitPair ==
    /\ \E a \in PairJobs, b \in PairJobs : jobs = <<a, b>>
    /\ user \in PairUsers
    /\ call = Idle
    /\ ret = None

\* JobMatcher._get_pair_type(job_a, job_b)
GetPairType ==
    /\ call = Idle
    /\ \E i \in DOMAIN jobs, j \in DOMAIN jobs :
        /\ call' = [op |-> "get_pair_type", a |-> i, b |-> j]
        /\ ret' \in get_pair_type_outcomes(jobs[i], jobs[j])
        /\ UNCHANGED <<jobs, user>>

NextPair ==
    \/ GetPairType
    \/ JobsOverlap
    \/ JobFitsUser
    \/ Return

SpecPair == InitPair /\ [][NextPair]_vars

\* the class a returned pair type string stands for
PairTypeClass(label) ==
    CASE label = "Different Days (e.g., Mon-Wed and Thu-Sun)" -> "Different Days"
      [] label = "Morning & Evening Split (ideal rest period)" -> "Morning & Evening Split"
      [] label = "Evening & Morning Split (ideal rest period)" -> "Morning & Evening Split"
      [] OTHER -> label

\* the two jobs have a block on a common weekday
ShareWeekday(a, b) ==
    \E x \in DOMAIN a.schedule_blocks : \E y \in DOMAIN b.schedule_blocks :
        a.schedule_blocks[x].day = b.schedule_blocks[y].day

\* the averages of the block starts differ by more than 240 minutes
StartsFarApart(a, b) ==
    LET gap == SumStarts(a.schedule_blocks) * Len(b.schedule_blocks)
               - SumStarts(b.schedule_blocks) * Len(a.schedule_blocks)
        scale == Len(a.schedule_blocks) * Len(b.schedule_blocks)
    IN  gap > 240 * scale \/ 0 - gap > 240 * scale

\* C21: the pair type is 'Different Days' when the jobs share no weekday,
\* 'Morning & Evening Split' when they share one and their average starts
\* differ by more than 240 minutes, 'Complementary Schedule' otherwise (also at
\* exactly 240), whichever job comes first
C21_PairTypeClassified ==
    call.op = "get_pair_type" =>
        LET a == jobs[call.a]
            b == jobs[call.b]
        IN  PairTypeClass(ret) =
                IF ~ShareWeekday(a, b) THEN "Different Days"
                ELSE IF StartsFarApart(a, b) THEN "Morning & Evening Split"
                ELSE "Complementary Schedule"

\* C29: a job without schedule blocks passes the schedule check of
\* job_fits_user whatever the busy map (it is accepted when pay, hours and
\* location allow it), jobs_overlap is false for any pair that contains it,
\* and _get_pair_type returns the 'Different Days' label for such a pair
\* without computing an average
C29_EmptyScheduleHandled ==
    /\ call.op = "job_fits_user" /\ jobs[call.job].schedule_blocks = <<>>
       => ret.accepted = (PayAndHoursOk(jobs[call.job], user)
                          /\ LocationRuleAmended(jobs[call.job], user))
    /\ call.op \in {"jobs_overlap", "get_pair_type"}
       /\ <<>> \in {jobs[call.a].schedule_blocks, jobs[call.b].schedule_blocks}
       => IF call.op = "jobs_overlap" THEN ret = FALSE
          ELSE ret = "Different Days (e.g., Mon-Wed and Thu-Sun)"

\* the pair type was asked for a job with blocks and a job without blocks,
\* for a user whose Tuesday is busy all day
C29_Witness ==
    /\ call.op = "get_pair_type"
    /\ jobs[call.a].schedule_blocks # <<>>
    /\ jobs[call.b].schedule_blocks = <<>>
    /\ ret = "Different Days (e.g., Mon-Wed and Thu-Sun)"
    /\ Len(user.busy_map["Tue"]) = 1

\* C22: score_job returns a number for every profile; with no desired hours
\* (None or 0) and max_hours_per_week zero or negative the divisor is 1, so
\* the score is the whole number rate*2 + 10 - 10*|hours - max| + bonus
C22_NoDivisionByZero ==
    call.op = "score_job" =>
        /\ ret.d >= 1
        /\ user.desired_hours_per_week \in {None, Some(0)}
           /\ user.max_hours_per_week <= 0
           => LET job == jobs[call.job]
                  bonus == IF EnvironmentInTitle(job, user) THEN 5 ELSE 0
              IN  /\ ret.d = 1
                  /\ ret.n = job.hourly_rate * 2 + 10 + bonus
                             - 10 * (job.hours_per_week - user.max_hours_per_week)

\* a job was scored for a user with desired hours 0 and maximum hours 0
C22_Witness ==
    /\ call.op = "score_job"
    /\ user.desired_hours_per_week = Some(0)
    /\ user.max_hours_per_week = 0
    /\ jobs[call.job].hours_per_week = 20
    /\ ret.d = 1

-----------------------------------------------------------------------------
(* One JobMatcher queried several times: ret is the list of the result      *)
(* lists the caller has received so far and still holds.                    *)

MaxCalls == 2

FrameJobLists ==
    { <<>>,
      <<JobB, JobC2, JobW>>,
      <<JobW, JobC2, JobB>>,
      <<JobA, JobB, JobC>>,
      <<JobRemoteB, JobB>> }

InitFrame ==
    /\ jobs \in FrameJobLists
    /\ user \in MatchUsers
    /\ call = Idle
    /\ ret = <<>>

\* mutant of the call: the matcher sorts its own job list, as
\* self.jobs.sort(key=score, reverse=True) would
HoldSingleMatches_sorting_jobs ==
    /\ Len(ret) < MaxCalls
    /\ \E limit \in 0..MaxLimit :
        LET scored == [i \in DOMAIN jobs |->
                          [job |-> jobs[i], score |-> score_job(jobs[i], user)]]
            sorted == SortByScoreDesc(scored)
        IN  /\ call' = [op |-> "match_single_jobs", limit |-> limit]
            /\ ret' = Append(ret, match_single_jobs(jobs, user, limit))
            /\ jobs' = [i \in DOMAIN sorted |-> sorted[i].job]
            /\ UNCHANGED user

\* JobMatcher.match_single_jobs(user, limit): eligible and results are new
\* lists, self.jobs and user are only read
HoldSingleMatches ==
    /\ Len(ret) < MaxCalls
    /\ \E limit \in 0..MaxLimit :
        /\ call' = [op |-> "match_single_jobs", limit |-> limit]
        /\ ret' = Append(ret, match_single_jobs(jobs, user, limit))
        /\ UNCHANGED <<jobs, user>>

\* JobMatcher.match_job_pairs(user, limit): eligible_jobs, job_scores and
\* combos are new objects, self.jobs and user are only read
HoldPairMatches ==
    /\ Len(ret) < MaxCalls
    /\ \E limit \in 0..MaxLimit :
        /\ call' = [op |-> "match_job_pairs", limit |-> limit]
        /\ ret' = Append(ret, match_job_pairs(jobs, user, limit))
        /\ UNCHANGED <<jobs, user>>

NextFrame ==
    \/ HoldSingleMatches
    \/ HoldPairMatches

SpecFrame == InitFrame /\ [][NextFrame]_vars

\* C23: a call of match_single_jobs or match_job_pairs leaves the matcher's
\* job list (content and order, every field and block) and the user profile
\* (busy_map included) as they were, and leaves every result list returned
\* earlier as it was
C23_InputsAndResultsKept ==
    [][ /\ jobs' = jobs
        /\ user' = user
        /\ Len(ret') = Len(ret) + 1
        /\ \A k \in DOMAIN ret : ret'[k] = ret[k] ]_vars

\* two calls returned different non-empty results from a job list that is not
\* in score order
C23_Witness ==
    /\ Len(ret) = 2
    /\ ret[1] # <<>>
    /\ ret[2] # <<>>
    /\ ret[1] # ret[2]
    /\ Len(jobs) = 3
    /\ RatLess(score_job(jobs[1], user), score_job(jobs[3], user))

-----------------------------------------------------------------------------
(* Two invocations running in parallel, each on its own JobMatcher and its  *)
(* own profile: jobs[w], user[w] are the inputs of invocation w, call[w] is *)
(* its frame (its local variables and its position) and ret[w] what it has  *)
(* returned. One step is one loop iteration or one statement after a loop.  *)

Workers == {1, 2}

ParJobLists == { <<JobB, JobC2, JobW>>, <<JobA, JobB, JobC>> }

ParUsers == {u \in MatchUsers : u.max_hours_per_week = 70}

ParLimits == {1, MaxLimit}

Frame(op, limit) ==
    [op |-> op, limit |-> limit, pc |-> "scan", i |-> 1,
     eligible |-> <<>>, job_scores |-> <<>>, out |-> <<>>]

InitPar ==
    /\ jobs \in [Workers -> ParJobLists]
    /\ user \in [Workers -> ParUsers]
    /\ call \in [Workers -> { Frame(op, limit) :
                                op \in {"match_single_jobs", "match_job_pairs"},
                                limit \in ParLimits }]
    /\ ret = [w \in Workers |-> None]

\* mutant of the append: the eligible list of match_single_jobs is one object
\* shared by its invocations, as a class attribute or a mutable default is
AppendEligible_shared(frames, w, entries) ==
    [v \in DOMAIN frames |->
        IF v = w \/ (frames[v].op = "match_single_jobs"
                     /\ frames[w].op = "match_single_jobs")
        THEN [frames[v] EXCEPT !.eligible = @ \o entries]
        ELSE frames[v]]

\* eligible.append(...) / eligible_jobs.append(job): the list is a local of
\* invocation w
AppendEligible(frames, w, entries) ==
    [frames EXCEPT ![w].eligible = @ \o entries]

\* one iteration of `for job in self.jobs` of match_single_jobs
ScanSingle ==
    \E w \in Workers :
        /\ call[w].op = "match_single_jobs"
        /\ call[w].pc = "scan"
        /\ call[w].i <= Len(jobs[w])
        /\ call' = [AppendEligible(call, w,
                                   Eligible(<<jobs[w][call[w].i]>>, user[w]))
                       EXCEPT ![w].i = @ + 1]
        /\ UNCHANGED <<jobs, user, ret>>

\* eligible.sort(key=..., reverse=True) of match_single_jobs
SortEligible ==
    \E w \in Workers :
        /\ call[w].op = "match_single_jobs"
        /\ call[w].pc = "scan"
        /\ call[w].i > Len(jobs[w])
        /\ call' = [call EXCEPT ![w].eligible = SortByScoreDesc(@),
                                ![w].pc = "build",
                                ![w].i = 1]
        /\ UNCHANGED <<jobs, user, ret>>

\* one iteration of `for job, score, insights in eligible[:limit]`
BuildResult ==
    \E w \in Workers :
        /\ call[w].op = "match_single_jobs"
        /\ call[w].pc = "build"
        /\ call[w].i <= Len(Take(call[w].eligible, call[w].limit))
        /\ LET entry == call[w].eligible[call[w].i]
           IN  call' = [call EXCEPT
                          ![w].out = Append(@,
                              MatchResult(<<entry.job>>,
                                          entry.job.hours_per_week,
                                          weekly_pay(entry.job),
                                          entry.insights,
                                          entry.score)),
                          ![w].i = @ + 1]
        /\ UNCHANGED <<jobs, user, ret>>

\* `return results` of match_single_jobs
ReturnSingle ==
    \E w \in Workers :
        /\ call[w].op = "match_single_jobs"
        /\ call[w].pc = "build"
        /\ call[w].i > Len(Take(call[w].eligible, call[w].limit))
        /\ call' = [call EXCEPT ![w].pc = "done"]
        /\ ret' = [ret EXCEPT ![w] = Some(call[w].out)]
        /\ UNCHANGED <<jobs, user>>

\* one iteration of `for job in self.jobs` of match_job_pairs
ScanPairs ==
    \E w \in Workers :
        /\ call[w].op = "match_job_pairs"
        /\ call[w].pc = "scan"
        /\ call[w].i <= Len(jobs[w])
        /\ LET job == jobs[w][call[w].i]
           IN  call' = [AppendEligible(call, w, EligibleJobs(<<job>>, user[w]))
                           EXCEPT ![w].job_scores =
                                      JobScores(@, <<job>>, user[w]),
                                  ![w].i = @ + 1]
        /\ UNCHANGED <<jobs, user, ret>>

\* one iteration of `for job_a, job_b in combinations(eligible_jobs, 2)`,
\* the first of them leaving the scan loop
CombinePair ==
    \E w \in Workers :
        LET frame == call[w]
            pairs == Combinations2(Len(frame.eligible))
            k == IF frame.pc = "scan" THEN 1 ELSE frame.i
        IN  /\ frame.op = "match_job_pairs"
            /\ \/ frame.pc = "scan" /\ frame.i > Len(jobs[w])
               \/ frame.pc = "combine"
            /\ k <= Len(pairs)
            /\ call' = [call EXCEPT
                          ![w].out = @ \o Combos(<<pairs[k]>>, frame.eligible,
                                                 frame.job_scores, user[w]),
                          ![w].pc = "combine",
                          ![w].i = k + 1]
            /\ UNCHANGED <<jobs, user, ret>>

\* combos.sort(key=..., reverse=True); return combos[:limit]
ReturnPairs ==
    \E w \in Workers :
        LET frame == call[w]
            pairs == Combinations2(Len(frame.eligible))
            k == IF frame.pc = "scan" THEN 1 ELSE frame.i
        IN  /\ frame.op = "match_job_pairs"
            /\ \/ frame.pc = "scan" /\ frame.i > Len(jobs[w])
               \/ frame.pc = "combine"
            /\ k > Len(pairs)
            /\ call' = [call EXCEPT ![w].pc = "done"]
            /\ ret' = [ret EXCEPT
                          ![w] = Some(Take(SortByScoreDesc(frame.out),
                                           frame.limit))]
            /\ UNCHANGED <<jobs, user>>

NextPar ==
    \/ ScanSingle
    \/ SortEligible
    \/ BuildResult
    \/ ReturnSingle
    \/ ScanPairs
    \/ CombinePair
    \/ ReturnPairs

SpecPar == InitPar /\ [][NextPar]_vars

\* what invocation w returns when it runs alone on its own inputs
Alone(w) ==
    IF call[w].op = "match_single_jobs"
    THEN match_single_jobs(jobs[w], user[w], call[w].limit)
    ELSE match_job_pairs(jobs[w], user[w], call[w].limit)

\* C24: however the steps of two invocations with their own jobs and profile
\* are interleaved, an invocation that has returned has returned exactly the
\* result it returns when run alone
C24_ParallelAsAlone ==
    \A w \in Workers : call[w].pc = "done" => ret[w] = Some(Alone(w))

\* invocation 1 has returned single matches while invocation 2, a pair
\* computation on other jobs for another profile, is in the middle of its
\* combinations loop and has built a pair
C24_Witness ==
    /\ call[1].pc = "done"
    /\ call[1].op = "match_single_jobs"
    /\ ret[1] # Some(<<>>)
    /\ call[2].op = "match_job_pairs"
    /\ call[2].pc = "combine"
    /\ call[2].out # <<>>
    /\ call[2].i <= Len(Combinations2(Len(call[2].eligible)))
    /\ jobs[1] # jobs[2]
    /\ user[1] # user[2]

-----------------------------------------------------------------------------
(* agents/matching_agent.py: MatchingAgent.analyze_matches on the profile   *)
(* dict of a session (held in user) and the jobs found for it, next to the  *)
(* two matcher methods called without a limit argument.                     *)

\* `limit: int = 3` of match_single_jobs
match_single_jobs_default_limit == 3

\* `limit: int = 3` of match_job_pairs
match_job_pairs_default_limit == 3

\* data.get(key, default) on an entry that is absent (None) or present
Get(entry, default) == IF entry = None THEN default ELSE entry[1]

\* the busy_schedule loop of _create_profile: only blocks with two elements
\* are kept
TwoElementBlocks(raw_schedule) ==
    [k \in DOMAIN raw_schedule |->
        [day |-> raw_schedule[k].day,
         blocks |-> SelectSeq(raw_schedule[k].blocks,
                              LAMBDA b : Len(b) = 2)]]

\* MatchingAgent._create_profile(data)
create_profile(data) ==
    UserProfile(Get(data.location, <<>>),
                Get(data.min_rate, 0),
                IF Get(data.max_hours, 0) # 0 THEN data.max_hours[1] ELSE 70,
                IF Get(data.desired_hours, 0) # 0 THEN data.desired_hours
                                                   ELSE None,
                Get(data.remote_ok, TRUE),
                Get(data.onsite_ok, TRUE),
                Get(data.skills, <<>>),
                <<>>,
                TwoElementBlocks(Get(data.busy_schedule, <<>>)),
                Some(Get(data.preferred_locations, <<>>)))

\* mutant of raw_top_jobs: without single matches no job is shown
RawTopJobs_matches_only(single_matches, js) ==
    [i \in DOMAIN single_matches |-> single_matches[i].jobs[1]]

\* [m.jobs[0] for m in single_matches] if single_matches else jobs[:5]
RawTopJobs(single_matches, js) ==
    IF single_matches # <<>>
    THEN [i \in DOMAIN single_matches |-> single_matches[i].jobs[1]]
    ELSE Take(js, 5)

\* MatchingAgent.analyze_matches(user_data, jobs): the returned dict
analyze_matches(user_data, js) ==
    IF js = <<>>
    THEN [single |-> <<>>, pairs |-> <<>>, schedule |-> <<>>]
    ELSE LET profile == create_profile(user_data)
             single_matches == match_single_jobs(js, profile, 5)
             pair_matches == match_job_pairs(js, profile, 3)
         IN  [single |-> single_matches,
              pairs |-> pair_matches,
              raw_top_jobs |-> RawTopJobs(single_matches, js)]

JobE == Job("E", S_Driver, S_Dubai, 14, <<>>, 10, Shift(<<"Sat">>, 1100, 1300))

JobF == Job("F", S_Tutor, S_Dubai, 13, <<S_Python>>, 10, Shift(<<"Sun">>, 1100, 1300))

FoundJobs == <<JobA, JobB, JobC, JobC2, JobW, JobE, JobF>>

Reversed(s) == [i \in DOMAIN s |-> s[Len(s) + 1 - i]]

AgentJobLists ==
    {SubSeq(FoundJobs, 1, n) : n \in 0..Len(FoundJobs)}
        \cup {SubSeq(Reversed(FoundJobs), 1, n) : n \in 0..Len(FoundJobs)}

AgentUserData ==
    { [location |-> Some(S_Dubai),
       min_rate |-> Some(10),
       max_hours |-> max_hours,
       desired_hours |-> desired_hours,
       remote_ok |-> None,
       onsite_ok |-> None,
       skills |-> Some(<<S_python>>),
       busy_schedule |->
           Some(<< [day |-> S_Monday,
                    blocks |-> << <<540, 600>>, <<700, 800, 1>> >>] >>),
       preferred_locations |-> None] :
        max_hours \in {None, Some(0), Some(40), Some(5)},
        desired_hours \in {None, Some(0), Some(20)} }

InitAgent ==
    /\ jobs \in AgentJobLists
    /\ user \in AgentUserData
    /\ call = Idle
    /\ ret = None

\* analyze_matches(user_data, jobs); call.profile is the local `profile`,
\* None when the function returns before building it
AnalyzeMatches ==
    /\ call = Idle
    /\ call' = [op |-> "analyze_matches",
                profile |-> IF jobs = <<>> THEN None
                            ELSE Some(create_profile(user))]
    /\ ret' = analyze_matches(user, jobs)
    /\ UNCHANGED <<jobs, user>>

\* JobMatcher(jobs).match_single_jobs(profile), no limit argument
MatchSingleJobsDefault ==
    /\ call = Idle
    /\ call' = [op |-> "match_single_jobs_default"]
    /\ ret' = match_single_jobs(jobs, create_profile(user),
                                match_single_jobs_default_limit)
    /\ UNCHANGED <<jobs, user>>

\* JobMatcher(jobs).match_job_pairs(profile), no limit argument
MatchJobPairsDefault ==
    /\ call = Idle
    /\ call' = [op |-> "match_job_pairs_default"]
    /\ ret' = match_job_pairs(jobs, create_profile(user),
                              match_job_pairs_default_limit)
    /\ UNCHANGED <<jobs, user>>

NextAgent ==
    \/ AnalyzeMatches
    \/ MatchSingleJobsDefault
    \/ MatchJobPairsDefault
    \/ Return

SpecAgent == InitAgent /\ [][NextAgent]_vars

NoJobFeasible ==
    \A i \in DOMAIN jobs :
        ~job_fits_user(jobs[i], create_profile(user)).accepted

\* C27: analyze_matches on an empty job list returns empty 'single' and
\* 'pairs' and builds no profile; on a non-empty list without a feasible job
\* it returns empty 'single' and 'pairs' and the first five input jobs as
\* raw_top_jobs; with a feasible job, raw_top_jobs is the job of each single
\* match, in rank order
C27_RawTopJobs ==
    call.op = "analyze_matches" =>
        IF jobs = <<>>
        THEN /\ ret.single = <<>>
             /\ ret.pairs = <<>>
             /\ call.profile = None
        ELSE IF NoJobFeasible
        THEN /\ ret.single = <<>>
             /\ ret.pairs = <<>>
             /\ Len(ret.raw_top_jobs) = (IF Len(jobs) < 5 THEN Len(jobs) ELSE 5)
             /\ \A i \in DOMAIN ret.raw_top_jobs : ret.raw_top_jobs[i] = jobs[i]
        ELSE /\ ret.single # <<>>
             /\ ret.single = match_single_jobs(jobs, call.profile[1], 5)
             /\ Len(ret.raw_top_jobs) = Len(ret.single)
             /\ \A i \in DOMAIN ret.single :
                    ret.single[i].jobs = <<ret.raw_top_jobs[i]>>

\* seven jobs were found, none fits the 5-hour profile, and the first five
\* of them came back as raw_top_jobs
C27_Witness ==
    /\ call.op = "analyze_matches"
    /\ Len(jobs) = 7
    /\ NoJobFeasible
    /\ ret.single = <<>>
    /\ Len(ret.raw_top_jobs) = 5
    /\ ret.raw_top_jobs[5] = jobs[5]

-----------------------------------------------------------------------------
(* main.py: the search strategy of perform_search. jobs is all_jobs, user   *)
(* the session profile with the query and location candidates built from    *)
(* it, call the position in the strategy with the locals calls, seen_ids    *)
(* and seen_retry, ret the list handed to analyze_matches. One step is one  *)
(* discovery_agent.search call followed by the loop over its results; a job *)
(* found is (job_id, search_query, search_location), job_id None when the   *)
(* attribute is missing or None.                                            *)

max_calls == 60

FoundJob(job_id) == [job_id |-> job_id, search_query |-> "", search_location |-> ""]

\* truth value of getattr(job, "job_id", None)
HasJobId(job) == job.job_id # None /\ job.job_id[1] # ""

\* mutant of the result loop: every job of a result is appended
RECURSIVE MergeResults_unchecked(_, _, _, _, _)
MergeResults_unchecked(all_jobs, seen, sub_results, q, loc) ==
    IF sub_results = <<>> THEN [all_jobs |-> all_jobs, seen |-> seen]
    ELSE MergeResults_unchecked(
             Append(all_jobs, [Head(sub_results) EXCEPT !.search_query = q,
                                                        !.search_location = loc]),
             seen, Tail(sub_results), q, loc)

\* `for job in sub_results: if getattr(job, "job_id", None) and job.job_id
\* not in seen_ids: ...; all_jobs.append(job); seen_ids.add(job.job_id)`
RECURSIVE MergeResults(_, _, _, _, _)
MergeResults(all_jobs, seen, sub_results, q, loc) ==
    IF sub_results = <<>> THEN [all_jobs |-> all_jobs, seen |-> seen]
    ELSE LET job == Head(sub_results)
         IN  IF HasJobId(job) /\ job.job_id[1] \notin seen
             THEN MergeResults(
                      Append(all_jobs, [job EXCEPT !.search_query = q,
                                                   !.search_location = loc]),
                      seen \cup {job.job_id[1]}, Tail(sub_results), q, loc)
             ELSE MergeResults(all_jobs, seen, Tail(sub_results), q, loc)

Position(phase, qi, li) == [phase |-> phase, qi |-> qi, li |-> li]

\* try_queries of the simple retry
try_queries(profile) ==
    IF profile.sub_queries # <<>> THEN Take(profile.sub_queries, 6)
    ELSE <<"Software Engineer">>

\* the control flow between two searches: from position pos, the position of
\* the next discovery_agent.search call, or "handoff" when the strategy is
\* over. In "main", li = 0 is the remote attempt of query qi and li >= 1 its
\* location attempts; in "skills" and "retry", li = 0 is the test in front
\* of the loop; in "retry", li = 1 and 2 are the two searches of query qi
\* and li = 3 the test `if jobs: break`.
RECURSIVE Settle(_, _, _, _)
Settle(profile, pos, calls, all_jobs) ==
    LET queries == Take(profile.sub_queries, 10)
        locs == profile.location_variants
        go(phase, qi, li) == Settle(profile, Position(phase, qi, li), calls, all_jobs)
    IN  CASE pos.phase = "main" ->
                 IF pos.qi > Len(queries) THEN go("skills", 1, 0)
                 ELSE IF pos.li = 0
                 THEN IF calls >= max_calls THEN go("skills", 1, 0)
                      ELSE IF profile.remote_ok THEN pos
                      ELSE go("main", pos.qi, 1)
                 ELSE IF pos.li > Len(locs) THEN go("main", pos.qi + 1, 0)
                 ELSE IF calls >= max_calls THEN go("main", pos.qi + 1, 0)
                 ELSE IF locs[pos.li] = "Remote" THEN go("main", pos.qi, pos.li + 1)
                 ELSE pos
          [] pos.phase = "skills" ->
                 IF pos.li = 0
                 THEN IF all_jobs = <<>> /\ profile.skills # <<>>
                      THEN go("skills", 1, 1)
                      ELSE go("fallback", 1, 0)
                 ELSE IF pos.qi > Len(Take(profile.skills, 6)) \/ calls >= max_calls
                 THEN go("fallback", 1, 0)
                 ELSE pos
          [] pos.phase = "fallback" ->
                 IF all_jobs = <<>> THEN pos ELSE go("retry", 1, 0)
          [] pos.phase = "retry" ->
                 IF pos.li = 0
                 THEN IF all_jobs = <<>> THEN go("retry", 1, 1)
                      ELSE Position("handoff", 1, 0)
                 ELSE IF pos.li = 1
                 THEN IF pos.qi > Len(try_queries(profile))
                      THEN Position("handoff", 1, 0)
                      ELSE pos
                 ELSE IF pos.li = 2
                 THEN IF profile.remote_ok THEN pos ELSE go("retry", pos.qi, 3)
                 ELSE IF all_jobs # <<>> THEN Position("handoff", 1, 0)
                      ELSE go("retry", pos.qi + 1, 1)
          [] OTHER -> pos

\* what one discovery_agent.search call can deliver: nothing, one job, a job
\* twice around another one, jobs without job_id or with an empty one
SearchResults ==
    { <<>>,
      <<FoundJob(Some("a"))>>,
      <<FoundJob(Some("a")), FoundJob(Some("b")), FoundJob(Some("a"))>>,
      <<FoundJob(None), FoundJob(Some("")), FoundJob(Some("b"))>> }

SearchOutcomes == {Raised} \cup {Returned(r) : r \in SearchResults}

\* sub_results after `try: ... except Exception: sub_results = []`
SubResults(outcome) == IF outcome.raised THEN <<>> ELSE outcome.value

SearchProfiles ==
    { [remote_ok |-> remote_ok,
       skills |-> skills,
       location |-> "Yerevan",
       sub_queries |-> sub_queries,
       location_variants |-> (IF remote_ok THEN <<"Remote">> ELSE <<>>)
                                 \o <<"Yerevan", "">>] :
        remote_ok \in BOOLEAN,
        skills \in {<<>>, <<"python">>},
        sub_queries \in {<<"python">>, <<"python", "python remote">>} }

SearchFrame(pos, calls, seen_ids, seen_retry) ==
    [phase |-> pos.phase, qi |-> pos.qi, li |-> pos.li, calls |-> calls,
     seen_ids |-> seen_ids, seen_retry |-> seen_retry]

InitSearch ==
    /\ jobs = <<>>
    /\ user \in SearchProfiles
    /\ call = SearchFrame(Settle(user, Position("main", 1, 0), 0, <<>>), 0, {}, {})
    /\ ret = None

\* a remote attempt or a per-location attempt of the main loop
MainSearch ==
    /\ call.phase = "main"
    /\ \E outcome \in SearchOutcomes :
        LET q == user.sub_queries[call.qi]
            loc == IF call.li = 0 THEN "Remote"
                   ELSE IF user.location_variants[call.li] = "" THEN "GLOBAL"
                   ELSE user.location_variants[call.li]
            merged == MergeResults(jobs, call.seen_ids, SubResults(outcome), q, loc)
            calls == call.calls + 1
        IN  /\ jobs' = merged.all_jobs
            /\ call' = SearchFrame(Settle(user, Position("main", call.qi, call.li + 1),
                                          calls, merged.all_jobs),
                                   calls, merged.seen, merged.seen)
    /\ UNCHANGED <<user, ret>>

\* a broad skill search
SkillSearch ==
    /\ call.phase = "skills"
    /\ \E outcome \in SearchOutcomes :
        LET merged == MergeResults(jobs, call.seen_ids, SubResults(outcome),
                                   user.skills[call.qi], "GLOBAL")
            calls == call.calls + 1
        IN  /\ jobs' = merged.all_jobs
            /\ call' = SearchFrame(Settle(user, Position("skills", call.qi + 1, 1),
                                          calls, merged.all_jobs),
                                   calls, merged.seen, merged.seen)
    /\ UNCHANGED <<user, ret>>

\* the final fallback search
FallbackSearch ==
    /\ call.phase = "fallback"
    /\ \E outcome \in SearchOutcomes :
        LET merged == MergeResults(jobs, call.seen_ids, SubResults(outcome),
                                   "Software Engineer", "GLOBAL")
        IN  /\ jobs' = merged.all_jobs
            /\ call' = SearchFrame(Settle(user, Position("retry", 1, 0),
                                          call.calls, merged.all_jobs),
                                   call.calls, merged.seen, merged.seen)
    /\ UNCHANGED <<user, ret>>

\* a search of the simple retry: jobs is the list all_jobs, seen_retry a copy
\* of seen_ids
RetrySearch ==
    /\ call.phase = "retry"
    /\ \E outcome \in SearchOutcomes :
        LET q == try_queries(user)[call.qi]
            loc == IF call.li = 1 THEN user.location ELSE "Remote"
            merged == MergeResults(jobs, call.seen_retry, SubResults(outcome), q, loc)
        IN  /\ jobs' = merged.all_jobs
            /\ call' = SearchFrame(Settle(user, Position("retry", call.qi, call.li + 1),
                                          call.calls, merged.all_jobs),
                                   call.calls, call.seen_ids, merged.seen)
    /\ UNCHANGED <<user, ret>>

\* the end of the strategy: the message that nothing was found, or
\* matching_agent.analyze_matches(profile, jobs)
HandOff ==
    /\ call.phase = "handoff"
    /\ call' = [call EXCEPT !.phase = IF jobs = <<>> THEN "gave_up" ELSE "analyzing"]
    /\ ret' = IF jobs = <<>> THEN None ELSE Some(jobs)
    /\ UNCHANGED <<jobs, user>>

NextSearch ==
    \/ MainSearch
    \/ SkillSearch
    \/ FallbackSearch
    \/ RetrySearch
    \/ HandOff

SpecSearch == InitSearch /\ [][NextSearch]_vars

DistinctNonEmptyIds(js) ==
    /\ \A i \in DOMAIN js : js[i].job_id # None /\ js[i].job_id # Some("")
    /\ \A i \in DOMAIN js, j \in DOMAIN js : i < j => js[i].job_id # js[j].job_id

\* C26: after every search step of perform_search the accumulated job list
\* has no two jobs with the same job_id and no job without a job_id or with
\* an empty one, and the list handed to analyze_matches is that list
C26_AccumulatedIdsDistinct ==
    /\ DistinctNonEmptyIds(jobs)
    /\ call.phase = "analyzing" => ret = Some(jobs) /\ jobs # <<>>

\* two jobs from two different searches were handed to analyze_matches after
\* at least three searches
C26_Witness ==
    /\ call.phase = "analyzing"
    /\ Len(jobs) = 2
    /\ jobs[1].search_location = "Remote"
    /\ jobs[2].search_location = "GLOBAL"
    /\ call.calls >= 3


-----------------------------------------------------------------------------
(* The number of results as a function of the limit, on the matcher that is *)
(* queried several times: the last entry of ret is the result of the call   *)
(* in `call`.                                                               *)

Min(a, b) == IF a <= b THEN a ELSE b

IsPrefix(s, t) == Len(s) <= Len(t) /\ s = SubSeq(t, 1, Len(s))

\* C28: match_single_jobs returns min(limit, f) results for f feasible
\* entries of the job list and match_job_pairs min(limit, p) results for p
\* surviving pairs, and the result for limit n is a prefix of the result for
\* limit n + 1
C28_LimitCutsPrefix ==
    /\ call.op = "match_single_jobs" =>
        /\ Len(ret[Len(ret)]) = Min(call.limit, Cardinality(FeasibleEntries))
        /\ IsPrefix(ret[Len(ret)],
                    match_single_jobs(jobs, user, call.limit + 1))
    /\ call.op = "match_job_pairs" =>
        /\ Len(ret[Len(ret)]) = Min(call.limit, Cardinality(SurvivingEntryPairs))
        /\ IsPrefix(ret[Len(ret)],
                    match_job_pairs(jobs, user, call.limit + 1))

\* three pairs survive and limit 2 returned two of them, after a call of
\* match_single_jobs with limit 1 on three feasible jobs had returned one
C28_Witness ==
    /\ call.op = "match_job_pairs"
    /\ call.limit = 2
    /\ Cardinality(SurvivingEntryPairs) = 3
    /\ Len(ret) = 2
    /\ Len(ret[2]) = 2
    /\ Len(ret[1]) = 1
    /\ Len(ret[1][1].jobs) = 1
    /\ Cardinality(FeasibleEntries) = 3

-----------------------------------------------------------------------------
(* The three schedule inferences over the runs of the program: user is the  *)
(* running Python process, of which only str_hash matters, the value of     *)
(* hash(title) % 2 for each title, fixed when the process starts (str       *)
(* hashes are salted per process unless PYTHONHASHSEED is set, and nothing  *)
(* in the repository sets it); jobs is the record of the inferences made so *)
(* far, kept across restarts.                                               *)

JSearchFlexibleWords ==
    { <<"d","r","i","v","e","r">>,
      <<"t","a","x","i">>,
      <<"c","o","u","r","i","e","r">>,
      <<"d","e","l","i","v","e","r","y">>,
      <<"u","b","e","r">>,
      <<"l","y","f","t">>,
      <<"f","r","e","e","l","a","n","c","e">>,
      <<"c","h","a","u","f","f","e","u","r">>,
      <<"v","a","n"," ","d","r","i","v","e","r">>,
      <<"o","w","n","e","r">> }

ShiftWords ==
    { <<"c","a","l","l"," ","c","e","n","t","e","r">>,
      <<"s","u","p","p","o","r","t">>,
      <<"o","p","e","r","a","t","o","r">>,
      <<"a","g","e","n","t">> }

ArmenianDriverWords ==
    { <<"d","r","i","v","e","r">>,
      <<"t","a","x","i">>,
      <<"c","o","u","r","i","e","r">>,
      <<"d","e","l","i","v","e","r","y">> }

\* JSearchService._infer_schedule(title, location): the blocks only
jsearch_infer_schedule(title, location, title_hash) ==
    LET title_lower == Lower(title)
        loc_lower == Lower(location)
        days == <<"Mon", "Tue", "Wed", "Thu", "Fri">>
        any(ws) == \E w \in ws : IsSubstring(w, title_lower)
        shift(start, end) == [i \in DOMAIN days |-> TimeBlock(days[i], start, end)]
    IN  IF \/ IsSubstring(<<"r","e","m","o","t","e">>, title_lower)
           \/ IsSubstring(<<"r","e","m","o","t","e">>, loc_lower)
        THEN <<>>
        ELSE IF any(JSearchFlexibleWords) THEN <<>>
        ELSE IF any(ShiftWords)
        THEN IF title_hash % 2 = 0 THEN shift(480, 840) ELSE shift(840, 1200)
        ELSE IF any({<<"p","a","r","t"," ","t","i","m","e">>, <<"p","a","r","t","-","t","i","m","e">>})
        THEN shift(600, 840)
        ELSE shift(540, 1080)

\* the scraper's _infer_schedule(title) of armenian_scrapers.py
armenian_infer_schedule(title, title_hash) ==
    LET title_lower == Lower(title)
        days == <<"Mon", "Tue", "Wed", "Thu", "Fri">>
        any(ws) == \E w \in ws : IsSubstring(w, title_lower)
        result(start, end, hours) ==
            [schedule_blocks |-> [i \in DOMAIN days |-> TimeBlock(days[i], start, end)],
             hours_per_week |-> hours]
    IN  IF any(ArmenianDriverWords) THEN result(1080, 1380, 25)
        ELSE IF any(ShiftWords)
        THEN IF title_hash % 2 = 0 THEN result(480, 840, 30)
                                   ELSE result(840, 1200, 30)
        ELSE IF any({<<"p","a","r","t"," ","t","i","m","e">>, <<"p","a","r","t","-","t","i","m","e">>})
        THEN result(600, 840, 20)
        ELSE result(540, 1080, 45)

S_CallCenterAgent == <<"C","a","l","l"," ","C","e","n","t","e","r"," ","A","g","e","n","t">>

InferTitles == {S_Support, S_CallCenterAgent, S_PartTimeCook}

InferLocations == {<<>>, S_Dubai}

Processes == [str_hash : [InferTitles -> 0..1]]

Inference(fn, title, location, result) ==
    [fn |-> fn, title |-> title, location |-> location, result |-> result]

InitInfer ==
    /\ jobs = <<>>
    /\ user \in Processes
    /\ call = Idle
    /\ ret = None

\* infer_schedule_from_title(title, location) in the running process
InferFromTitle ==
    /\ Len(jobs) < MaxCalls
    /\ \E title \in InferTitles, location \in InferLocations :
        /\ call' = [op |-> "infer_schedule_from_title", title |-> title,
                    location |-> location]
        /\ ret' = infer_schedule_from_title(title, location, user.str_hash[title])
        /\ jobs' = Append(jobs, Inference(call'.op, title, location, ret'))
    /\ UNCHANGED user

\* JSearchService._infer_schedule(title, location) in the running process
JSearchInferSchedule ==
    /\ Len(jobs) < MaxCalls
    /\ \E title \in InferTitles, location \in InferLocations :
        /\ call' = [op |-> "jsearch_infer_schedule", title |-> title,
                    location |-> location]
        /\ ret' = jsearch_infer_schedule(title, location, user.str_hash[title])
        /\ jobs' = Append(jobs, Inference(call'.op, title, location, ret'))
    /\ UNCHANGED user

\* the Armenian scraper's _infer_schedule(title) in the running process
ArmenianInferSchedule ==
    /\ Len(jobs) < MaxCalls
    /\ \E title \in InferTitles :
        /\ call' = [op |-> "armenian_infer_schedule", title |-> title,
                    location |-> <<>>]
        /\ ret' = armenian_infer_schedule(title, user.str_hash[title])
        /\ jobs' = Append(jobs, Inference(call'.op, title, <<>>, ret'))
    /\ UNCHANGED user

\* the program is started again: the new process salts str hashes anew
Restart ==
    /\ user' \in Processes
    /\ call' = Idle
    /\ ret' = None
    /\ UNCHANGED jobs

NextInfer ==
    \/ InferFromTitle
    \/ JSearchInferSchedule
    \/ ArmenianInferSchedule
    \/ Restart

SpecInfer == InitInfer /\ [][NextInfer]_vars

\* C30: the inferred schedule is a function of (title, location): two
\* inferences by the same function for the same title and location gave the
\* same result, in whichever call and run of the program they were made
C30_SameTitleSameShift ==
    \A i \in DOMAIN jobs, j \in DOMAIN jobs :
        /\ jobs[i].fn = jobs[j].fn
        /\ jobs[i].title = jobs[j].title
        /\ jobs[i].location = jobs[j].location
        => jobs[i].result = jobs[j].result

=============================================================================
